---- MODULE Spec2Model ----
(***************************************************************************)
(* Real-time call transcription: the websocket handler of main.py driving  *)
(* one TwilioTranscriber (twilio_transcriber.py), its TranscriptDisplay    *)
(* and the transcripts/ directory.                                         *)
(*                                                                         *)
(* Text is a sequence of characters, so that strip() and ' '.join() are    *)
(* computed and not assumed.  The Vosk engine is an external dependency:   *)
(* what it hears and when it endpoints is a nondeterministic input.        *)
(***************************************************************************)
EXTENDS Integers, Sequences, FiniteSets, TLC

(***************************************************************************)
(* Bounds                                                                  *)
(***************************************************************************)
MaxEvents == 5
MaxClock == 1
MaxListing == 2
MaxFrames == 2
MaxFrameLen == 2
MaxSessionFrames == 1
MaxCalls == 2
MaxCycles == 2
MaxRecentCalls == 2

(***************************************************************************)
(* Text                                                                    *)
(***************************************************************************)
Chars == {"a", "b", " "}

IsSpace(c) == c = " "

\* the texts the engine may return: none, whitespace only, two utterances,
\* and an utterance with trailing whitespace
Texts == {<<>>, <<" ">>, <<"a">>, <<"b">>, <<"b", " ">>}

RECURSIVE LStrip(_)
LStrip(s) == IF s = <<>> THEN <<>>
             ELSE IF IsSpace(Head(s)) THEN LStrip(Tail(s))
             ELSE s

RECURSIVE RStrip(_)
RStrip(s) == IF s = <<>> THEN <<>>
             ELSE IF IsSpace(s[Len(s)]) THEN RStrip(SubSeq(s, 1, Len(s) - 1))
             ELSE s

\* str.strip()
Strip(s) == RStrip(LStrip(s))

\* ' '.join(segs)
RECURSIVE Join(_)
Join(segs) == IF segs = <<>> THEN <<>>
              ELSE IF Len(segs) = 1 THEN segs[1]
              ELSE segs[1] \o <<" ">> \o Join(Tail(segs))

(***************************************************************************)
(* Console and filesystem                                                  *)
(***************************************************************************)
\* what the process printed, counted per kind of message
NoReports == [started |-> 0, stopped |-> 0, saved |-> 0, nothing |-> 0,
              save_error |-> 0, audio_error |-> 0, ws_error |-> 0,
              cleanup_error |-> 0, no_transcriber |-> 0]

Bump(rp, kind) == [rp EXCEPT ![kind] = @ + 1]

\* transcripts/transcript_<timestamp>.txt, one possible name per clock second
Stamps == 0..MaxClock

NoFile == [exists |-> FALSE]

\* outcome of os.makedirs and open: makedirs raises out of save_to_file,
\* a failing open is caught there and leaves the directory as it was
FsOutcomes == {"ok", "mkdir_fail", "open_fail"}

(***************************************************************************)
(* TranscriptDisplay                                                       *)
(***************************************************************************)
\* add_final that tests the text for emptiness only, not for whitespace
add_final_keeps_blank(final_transcripts, text) ==
    IF text # <<>> THEN Append(final_transcripts, text)
    ELSE final_transcripts

\* add_final that puts the newest segment first
add_final_prepends(final_transcripts, text) ==
    IF Strip(text) # <<>> THEN <<text>> \o final_transcripts
    ELSE final_transcripts

\* add_final: the new value of final_transcripts
add_final(final_transcripts, text) ==
    IF Strip(text) # <<>> THEN Append(final_transcripts, text)
    ELSE final_transcripts

get_full_transcript(final_transcripts) == Join(final_transcripts)

\* an artifact whose header comes after the transcript text
ArtifactHeaderLast(t, transcript_text) ==
    [exists |-> TRUE, header |-> t, body |-> transcript_text,
     content |-> << [part |-> "separator", width |-> 50],
                    [part |-> "text", text |-> transcript_text],
                    [part |-> "newline"],
                    [part |-> "header", stamp |-> t] >>]

\* what the four f.write calls leave in the file: the header line
\* "Call Transcript - <time>", the line of 50 "=" and an empty line, the
\* text, a newline
Artifact(t, transcript_text) ==
    [exists |-> TRUE, header |-> t, body |-> transcript_text,
     content |-> << [part |-> "header", stamp |-> t],
                    [part |-> "separator", width |-> 50],
                    [part |-> "text", text |-> transcript_text],
                    [part |-> "newline"] >>]

\* save_to_file without the early return on an empty transcript
save_to_file_writes_empty(final_transcripts, fs, wr, rp, t, fsOutcome) ==
    LET transcript_text == get_full_transcript(final_transcripts) IN
    IF fsOutcome = "mkdir_fail"
    THEN [files |-> fs, writes |-> wr, reports |-> rp, raised |-> TRUE]
    ELSE IF fsOutcome = "open_fail"
    THEN [files |-> fs, writes |-> wr, reports |-> Bump(rp, "save_error"),
          raised |-> FALSE]
    ELSE [files |-> [fs EXCEPT ![t] = Artifact(t, transcript_text)],
          writes |-> wr + 1, reports |-> Bump(rp, "saved"),
          raised |-> FALSE]

\* save_to_file(filename=None) at clock second t
save_to_file(final_transcripts, fs, wr, rp, t, fsOutcome) ==
    LET transcript_text == get_full_transcript(final_transcripts) IN
    IF Strip(transcript_text) = <<>>
    THEN [files |-> fs, writes |-> wr, reports |-> Bump(rp, "nothing"),
          raised |-> FALSE]
    ELSE IF fsOutcome = "mkdir_fail"
    THEN [files |-> fs, writes |-> wr, reports |-> rp, raised |-> TRUE]
    ELSE IF fsOutcome = "open_fail"
    THEN [files |-> fs, writes |-> wr, reports |-> Bump(rp, "save_error"),
          raised |-> FALSE]
    ELSE [files |-> [fs EXCEPT ![t] = Artifact(t, transcript_text)],
          writes |-> wr + 1, reports |-> Bump(rp, "saved"),
          raised |-> FALSE]

(***************************************************************************)
(* KaldiRecognizer (external engine)                                       *)
(*   held    : text of the utterance in progress                           *)
(*   emitted : every text the engine returned from Result()/FinalResult()  *)
(*   flush_faults : number of FinalResult() calls that raised              *)
(***************************************************************************)
NewRecognizer == [held |-> <<>>, emitted |-> <<>>, flush_faults |-> 0]

\* AcceptWaveform returned True, then Result()
EngineFinal(rec, hyp) ==
    [rec EXCEPT !.held = <<>>, !.emitted = Append(@, hyp)]

\* AcceptWaveform returned False, then PartialResult()
EnginePartial(rec, hyp) == [rec EXCEPT !.held = hyp]

\* FinalResult(): returns the utterance in progress and resets the engine
EngineFlush(rec) ==
    [rec EXCEPT !.held = <<>>, !.emitted = Append(@, rec.held)]

\* FinalResult() raises: nothing is returned, the utterance stays open
EngineFlushFault(rec) == [rec EXCEPT !.flush_faults = @ + 1]

EngineOutcomes == {"final", "partial", "raise"}

(***************************************************************************)
(* TwilioTranscriber                                                       *)
(***************************************************************************)
None == [cls |-> "NoneType"]

\* __init__, the model was found
NewTranscriber == [cls |-> "TwilioTranscriber", is_active |-> FALSE,
                   final_transcripts |-> <<>>, rec |-> NewRecognizer]

start_transcription(self) == [self EXCEPT !.is_active = TRUE]

\* process_audio whose failure ends the session
process_audio_stops_on_error(self, line, rp, outcome, hyp) ==
    IF ~self.is_active
    THEN [self |-> self, partial_line |-> line, reports |-> rp]
    ELSE IF outcome = "raise"
    THEN [self |-> [self EXCEPT !.is_active = FALSE], partial_line |-> line,
          reports |-> Bump(rp, "audio_error")]
    ELSE IF outcome = "final"
    THEN [self |-> [self EXCEPT
                      !.rec = EngineFinal(self.rec, hyp),
                      !.final_transcripts =
                          IF hyp # <<>> THEN add_final(@, hyp) ELSE @],
          partial_line |-> line, reports |-> rp]
    ELSE [self |-> [self EXCEPT !.rec = EnginePartial(self.rec, hyp)],
          partial_line |-> IF hyp # <<>> THEN hyp ELSE line,
          reports |-> rp]

\* process_audio without the is_active guard
process_audio_ignores_active(self, line, rp, outcome, hyp) ==
    IF outcome = "raise"
    THEN [self |-> self, partial_line |-> line,
          reports |-> Bump(rp, "audio_error")]
    ELSE IF outcome = "final"
    THEN [self |-> [self EXCEPT
                      !.rec = EngineFinal(self.rec, hyp),
                      !.final_transcripts =
                          IF hyp # <<>> THEN add_final(@, hyp) ELSE @],
          partial_line |-> line, reports |-> rp]
    ELSE [self |-> [self EXCEPT !.rec = EnginePartial(self.rec, hyp)],
          partial_line |-> IF hyp # <<>> THEN hyp ELSE line,
          reports |-> rp]

\* process_audio that also commits the Partial text to the transcript
process_audio_commits_partial(self, line, rp, outcome, hyp) ==
    IF ~self.is_active
    THEN [self |-> self, partial_line |-> line, reports |-> rp]
    ELSE IF outcome = "raise"
    THEN [self |-> self, partial_line |-> line,
          reports |-> Bump(rp, "audio_error")]
    ELSE IF outcome = "final"
    THEN [self |-> [self EXCEPT
                      !.rec = EngineFinal(self.rec, hyp),
                      !.final_transcripts =
                          IF hyp # <<>> THEN add_final(@, hyp) ELSE @],
          partial_line |-> line, reports |-> rp]
    ELSE [self |-> [self EXCEPT
                      !.rec = EnginePartial(self.rec, hyp),
                      !.final_transcripts =
                          IF hyp # <<>> THEN add_final(@, hyp) ELSE @],
          partial_line |-> IF hyp # <<>> THEN hyp ELSE line,
          reports |-> rp]

\* process_audio: the engine hears hyp and either endpoints (final), keeps
\* the utterance open (partial) or fails (raise)
process_audio(self, line, rp, outcome, hyp) ==
    IF ~self.is_active
    THEN [self |-> self, partial_line |-> line, reports |-> rp]
    ELSE IF outcome = "raise"
    THEN [self |-> self, partial_line |-> line,
          reports |-> Bump(rp, "audio_error")]
    ELSE IF outcome = "final"
    THEN [self |-> [self EXCEPT
                      !.rec = EngineFinal(self.rec, hyp),
                      !.final_transcripts =
                          IF hyp # <<>> THEN add_final(@, hyp) ELSE @],
          partial_line |-> line, reports |-> rp]
    ELSE [self |-> [self EXCEPT !.rec = EnginePartial(self.rec, hyp)],
          partial_line |-> IF hyp # <<>> THEN hyp ELSE line,
          reports |-> rp]

FlushOutcomes == {"ok", "raise"}

\* stop_transcription that never asks the engine for its trailing result
stop_without_flush(self, fs, wr, rp, t, flushOutcome, fsOutcome) ==
    LET flushed == [self EXCEPT !.is_active = FALSE]
        saved == save_to_file(flushed.final_transcripts, fs, wr,
                              Bump(rp, "stopped"), t, fsOutcome)
    IN  [self |-> flushed, files |-> saved.files, writes |-> saved.writes,
         reports |-> saved.reports, raised |-> saved.raised]

stop_transcription(self, fs, wr, rp, t, flushOutcome, fsOutcome) ==
    LET flushed ==
            IF flushOutcome = "ok"
            THEN [self EXCEPT
                    !.is_active = FALSE,
                    !.rec = EngineFlush(self.rec),
                    !.final_transcripts =
                        IF self.rec.held # <<>>
                        THEN add_final(@, self.rec.held) ELSE @]
            ELSE [self EXCEPT !.is_active = FALSE,
                              !.rec = EngineFlushFault(self.rec)]
        saved == save_to_file(flushed.final_transcripts, fs, wr,
                              Bump(rp, "stopped"), t, fsOutcome)
    IN  [self |-> flushed, files |-> saved.files, writes |-> saved.writes,
         reports |-> saved.reports, raised |-> saved.raised]

(***************************************************************************)
(* State                                                                   *)
(***************************************************************************)
VARIABLES
    pc,            \* "recv": in the receive loop, "finally": loop left,
                   \* "done": handler returned, "api": no handler, direct calls
    transcriber,   \* the handler's local: None or a TwilioTranscriber
    media_count,   \* the handler's local counter
    files,         \* transcripts/: artifact per timestamp
    writes,        \* number of times an artifact was written
    now,           \* wall clock, in seconds
    reports,       \* console messages so far
    partial_line,  \* the partial text last drawn on the console line
    nEvents,       \* messages received / calls made so far
    lastEvent,     \* the message or call handled by the last step
    startSeen,     \* a "start" message arrived since the last "connected"
    exitCause,     \* why the receive loop was left
    raised         \* the last stop_transcription call raised to its caller

vars == <<pc, transcriber, media_count, files, writes, now, reports,
          partial_line, nEvents, lastEvent, startSeen, exitCause, raised>>

env == <<files, writes, now, reports, partial_line>>

\* state of the parts of the program the handler above does not touch;
\* each is driven by a specification of its own further down
VARIABLES
    construction,  \* one call of TwilioTranscriber.__init__: inputs, result
    resampler,     \* the audio path of process_audio over successive frames
    sessions,      \* two handlers serving two calls at the same time
    threads,       \* threads inside the methods of TranscriptDisplay
    displays,      \* the TranscriptDisplay objects those threads work on
    recorder       \* ExotelCallRecorder.run and the calls it makes

others == <<construction, resampler, sessions, threads, displays, recorder>>

allvars == <<vars, others>>

Unused == [used |-> FALSE]

OthersUnused ==
    /\ construction = Unused
    /\ resampler = Unused
    /\ sessions = Unused
    /\ threads = Unused
    /\ displays = Unused
    /\ recorder = Unused

Init ==
    /\ pc = "recv"
    /\ transcriber = None
    /\ media_count = 0
    /\ files = [t \in Stamps |-> NoFile]
    /\ writes = 0
    /\ now = 0
    /\ reports = NoReports
    /\ partial_line = <<>>
    /\ nEvents = 0
    /\ lastEvent = "none"
    /\ startSeen = FALSE
    /\ exitCause = "none"
    /\ raised = FALSE
    /\ OthersUnused

(***************************************************************************)
(* transcription_websocket: one action per message of the receive loop     *)
(***************************************************************************)
Receiving == pc = "recv" /\ nEvents < MaxEvents

\* case "connected" that constructs the transcriber and leaves it Created
RecvConnectedNotStarted ==
    /\ pc = "recv" /\ nEvents < MaxEvents
    /\ UNCHANGED others
    /\ nEvents' = nEvents + 1
    /\ lastEvent' = "connected"
    /\ \E found \in BOOLEAN :
         IF found
         THEN /\ transcriber' = NewTranscriber
              /\ startSeen' = FALSE
              /\ UNCHANGED <<pc, exitCause, reports>>
         ELSE /\ reports' = Bump(reports, "ws_error")
              /\ pc' = "finally"
              /\ exitCause' = "exception"
              /\ UNCHANGED <<transcriber, startSeen>>
    /\ UNCHANGED <<media_count, files, writes, now, partial_line, raised>>

\* case "connected": construct the transcriber and start it
RecvConnected ==
    /\ Receiving
    /\ UNCHANGED others
    /\ nEvents' = nEvents + 1
    /\ lastEvent' = "connected"
    /\ \E found \in BOOLEAN :
         IF found
         THEN /\ transcriber' = start_transcription(NewTranscriber)
              /\ reports' = Bump(reports, "started")
              /\ startSeen' = FALSE
              /\ UNCHANGED <<pc, exitCause>>
         ELSE \* __init__ raises FileNotFoundError
              /\ reports' = Bump(reports, "ws_error")
              /\ pc' = "finally"
              /\ exitCause' = "exception"
              /\ UNCHANGED <<transcriber, startSeen>>
    /\ UNCHANGED <<media_count, files, writes, now, partial_line, raised>>

\* case "start"
RecvStart ==
    /\ Receiving
    /\ UNCHANGED others
    /\ nEvents' = nEvents + 1
    /\ lastEvent' = "start"
    /\ media_count' = 0
    /\ startSeen' = TRUE
    /\ UNCHANGED <<pc, transcriber, env, exitCause, raised>>

\* case "media"
RecvMedia ==
    /\ Receiving
    /\ UNCHANGED others
    /\ nEvents' = nEvents + 1
    /\ lastEvent' = "media"
    /\ media_count' = media_count + 1
    /\ IF transcriber = None
       THEN /\ reports' = Bump(reports, "no_transcriber")
            /\ UNCHANGED <<pc, transcriber, partial_line, exitCause>>
       ELSE \E wellFormed \in BOOLEAN :
              IF ~wellFormed
              THEN \* data['media']['payload'] or b64decode raises
                   /\ reports' = Bump(reports, "ws_error")
                   /\ pc' = "finally"
                   /\ exitCause' = "exception"
                   /\ UNCHANGED <<transcriber, partial_line>>
              ELSE \E outcome \in EngineOutcomes, hyp \in Texts :
                     LET r == process_audio(transcriber, partial_line,
                                            reports, outcome, hyp)
                     IN  /\ transcriber' = r.self
                         /\ partial_line' = r.partial_line
                         /\ reports' = r.reports
                         /\ UNCHANGED <<pc, exitCause>>
    /\ UNCHANGED <<files, writes, now, startSeen, raised>>

\* any other event type: no case matches
RecvOther ==
    /\ Receiving
    /\ UNCHANGED others
    /\ nEvents' = nEvents + 1
    /\ lastEvent' = "other"
    /\ UNCHANGED <<pc, transcriber, media_count, env, startSeen, exitCause,
                   raised>>

\* case "stop": stop the transcriber and break
RecvStop ==
    /\ Receiving
    /\ UNCHANGED others
    /\ nEvents' = nEvents + 1
    /\ lastEvent' = "stop"
    /\ pc' = "finally"
    /\ exitCause' = "stop"
    /\ IF transcriber = None
       THEN UNCHANGED <<transcriber, files, writes, reports, raised>>
       ELSE \E flushOutcome \in FlushOutcomes, fsOutcome \in FsOutcomes :
              LET r == stop_transcription(transcriber, files, writes, reports,
                                          now, flushOutcome, fsOutcome)
              IN  /\ transcriber' = r.self
                  /\ files' = r.files
                  /\ writes' = r.writes
                  /\ raised' = r.raised
                  /\ reports' = IF r.raised THEN Bump(r.reports, "ws_error")
                                ELSE r.reports
    /\ UNCHANGED <<media_count, now, partial_line, startSeen>>

\* ws.receive() raises (the transport closed) or the message is not JSON
RecvFail ==
    /\ Receiving
    /\ UNCHANGED others
    /\ nEvents' = nEvents + 1
    /\ lastEvent' = "fail"
    /\ pc' = "finally"
    /\ exitCause' = "disconnect"
    /\ reports' = Bump(reports, "ws_error")
    /\ UNCHANGED <<transcriber, media_count, files, writes, now, partial_line,
                   startSeen, raised>>

\* cleanup only where the stop event already did it: no finally block
FinallyWithoutCleanup ==
    /\ pc = "finally"
    /\ UNCHANGED others
    /\ pc' = "done"
    /\ lastEvent' = "finally"
    /\ UNCHANGED <<transcriber, files, writes, reports, raised>>
    /\ UNCHANGED <<media_count, now, partial_line, nEvents, startSeen,
                   exitCause>>

\* finally: stop the transcriber, whatever ended the loop
Finally ==
    /\ pc = "finally"
    /\ UNCHANGED others
    /\ pc' = "done"
    /\ lastEvent' = "finally"
    /\ IF transcriber = None
       THEN UNCHANGED <<transcriber, files, writes, reports, raised>>
       ELSE \E flushOutcome \in FlushOutcomes, fsOutcome \in FsOutcomes :
              LET r == stop_transcription(transcriber, files, writes, reports,
                                          now, flushOutcome, fsOutcome)
              IN  /\ transcriber' = r.self
                  /\ files' = r.files
                  /\ writes' = r.writes
                  /\ raised' = r.raised
                  /\ reports' = IF r.raised
                                THEN Bump(r.reports, "cleanup_error")
                                ELSE r.reports
    /\ UNCHANGED <<media_count, now, partial_line, nEvents, startSeen,
                   exitCause>>

\* a second of wall-clock time passes
Tick ==
    /\ pc # "done"
    /\ UNCHANGED others
    /\ now < MaxClock
    /\ now' = now + 1
    /\ UNCHANGED <<pc, transcriber, media_count, files, writes, reports,
                   partial_line, nEvents, lastEvent, startSeen, exitCause,
                   raised>>

Next ==
    \/ RecvConnected
    \/ RecvStart
    \/ RecvMedia
    \/ RecvOther
    \/ RecvStop
    \/ RecvFail
    \/ Finally
    \/ Tick

Spec == Init /\ [][Next]_vars

(***************************************************************************)
(* A TwilioTranscriber driven directly by its caller, in any order of      *)
(* calls (no websocket handler)                                            *)
(***************************************************************************)
InitAPI ==
    /\ pc = "api"
    /\ transcriber = NewTranscriber
    /\ media_count = 0
    /\ files = [t \in Stamps |-> NoFile]
    /\ writes = 0
    /\ now = 0
    /\ reports = NoReports
    /\ partial_line = <<>>
    /\ nEvents = 0
    /\ lastEvent = "none"
    /\ startSeen = FALSE
    /\ exitCause = "none"
    /\ raised = FALSE
    /\ OthersUnused

Calling == pc = "api" /\ nEvents < MaxEvents

ApiStart ==
    /\ Calling
    /\ UNCHANGED others
    /\ nEvents' = nEvents + 1
    /\ lastEvent' = "start_transcription"
    /\ transcriber' = start_transcription(transcriber)
    /\ reports' = Bump(reports, "started")
    /\ raised' = FALSE
    /\ UNCHANGED <<pc, media_count, files, writes, now, partial_line,
                   startSeen, exitCause>>

ApiProcessAudio ==
    /\ Calling
    /\ UNCHANGED others
    /\ nEvents' = nEvents + 1
    /\ lastEvent' = "process_audio"
    /\ \E outcome \in EngineOutcomes, hyp \in Texts :
         LET r == process_audio(transcriber, partial_line, reports, outcome,
                                hyp)
         IN  /\ transcriber' = r.self
             /\ partial_line' = r.partial_line
             /\ reports' = r.reports
    /\ raised' = FALSE
    /\ UNCHANGED <<pc, media_count, files, writes, now, startSeen, exitCause>>

ApiStop ==
    /\ Calling
    /\ UNCHANGED others
    /\ nEvents' = nEvents + 1
    /\ lastEvent' = "stop_transcription"
    /\ \E flushOutcome \in FlushOutcomes, fsOutcome \in FsOutcomes :
         LET r == stop_transcription(transcriber, files, writes, reports, now,
                                     flushOutcome, fsOutcome)
         IN  /\ transcriber' = r.self
             /\ files' = r.files
             /\ writes' = r.writes
             /\ reports' = r.reports
             /\ raised' = r.raised
    /\ UNCHANGED <<pc, media_count, now, partial_line, startSeen, exitCause>>

NextAPI ==
    \/ ApiStart
    \/ ApiProcessAudio
    \/ ApiStop
    \/ Tick

SpecAPI == InitAPI /\ [][NextAPI]_vars

\* both drivers: the handler, or direct calls
InitAll == Init \/ InitAPI

NextAll == Next \/ NextAPI

SpecAll == InitAll /\ [][NextAll]_vars

(***************************************************************************)
(* Vocabulary of the properties                                            *)
(***************************************************************************)
\* the text holds at least one character that is not whitespace
HasSpeech(text) == \E i \in 1..Len(text) : ~IsSpace(text[i])

\* the Finals of an engine that carry speech, in the order of emission
Finals(rec) == SelectSeq(rec.emitted, HasSpeech)

\* the segments, in order, one space between neighbours
RECURSIVE SpaceJoin(_)
SpaceJoin(segs) ==
    IF Len(segs) = 0 THEN <<>>
    ELSE LET front == SubSeq(segs, 1, Len(segs) - 1)
         IN  IF Len(front) = 0 THEN segs[Len(segs)]
             ELSE SpaceJoin(front) \o <<" ">> \o segs[Len(segs)]

HasSession == transcriber # None

\* the artifact with the latest timestamp
Written == {t \in Stamps : files[t].exists}

LatestFile == files[CHOOSE t \in Written : \A u \in Written : u <= t]

\* the step ran stop_transcription
StopStep == reports'.stopped = reports.stopped + 1

(***************************************************************************)
(* C1: whatever is written to an artifact is exactly the space-join of the *)
(* Finals the recognizer emitted, in emission order; the transcript never  *)
(* holds anything but those Finals, so no Partial text is appended or      *)
(* written.                                                                *)
(***************************************************************************)
C1_PersistedIsJoinOfFinals ==
    [][ transcriber' # None =>
          /\ transcriber'.final_transcripts = Finals(transcriber'.rec)
          /\ writes' > writes =>
               /\ files'[now'].exists
               /\ files'[now'].body = SpaceJoin(Finals(transcriber'.rec)) ]_vars

\* an artifact with two Finals was written after a different Partial was shown
C1_Witness ==
    /\ pc = "done"
    /\ HasSession
    /\ writes > 0
    /\ Len(transcriber.final_transcripts) = 2
    /\ partial_line # <<>>
    /\ \A i \in 1..2 : transcriber.final_transcripts[i] # partial_line
    /\ LatestFile.body = SpaceJoin(transcriber.final_transcripts)

(***************************************************************************)
(* C2: when the stream ends with a stop event and the session has a        *)
(* non-empty transcript, the artifact is written exactly once and the      *)
(* saved confirmation is printed once.                                     *)
(***************************************************************************)
C2_PersistedExactlyOnce ==
    ( /\ pc = "done"
      /\ exitCause = "stop"
      /\ HasSession
      /\ transcriber.final_transcripts # <<>> )
    => /\ writes <= 1
       /\ reports.saved <= 1
       /\ ( reports.save_error = 0 /\ reports.ws_error = 0
            /\ reports.cleanup_error = 0 )
          => (writes = 1 /\ reports.saved = 1)

(***************************************************************************)
(* C3: a second stop_transcription on a session whose cleanup already ran  *)
(* changes nothing: no raise, no further write, transcript and active flag *)
(* as the first call left them.                                            *)
(***************************************************************************)
C3_SecondStopIsNoOp ==
    [][ ( /\ HasSession
          /\ reports.stopped >= 1
          /\ ~raised
          /\ StopStep )
        => /\ files' = files
           /\ writes' = writes
           /\ ~raised'
           /\ transcriber'.final_transcripts = transcriber.final_transcripts
           /\ transcriber'.is_active = transcriber.is_active ]_vars

(***************************************************************************)
(* C4: when the handler has returned and it held a session, whatever ended *)
(* the loop (stop, disconnect, exception), stop_transcription has run: the *)
(* session is inactive, the engine was flushed, and unless the filesystem  *)
(* failed the latest artifact holds the join of all Finals, the same for   *)
(* every cause of exit.                                                    *)
(***************************************************************************)
C4_CleanupOnEveryExit ==
    (pc = "done" /\ HasSession)
    => /\ reports.stopped >= 1
       /\ ~transcriber.is_active
       /\ transcriber.rec.flush_faults = 0 => transcriber.rec.held = <<>>
       /\ transcriber.final_transcripts = Finals(transcriber.rec)
       /\ ( /\ transcriber.final_transcripts # <<>>
            /\ reports.save_error = 0
            /\ reports.cleanup_error = 0
            /\ exitCause = "stop" => reports.ws_error = 0 )
          => /\ Written # {}
             /\ LatestFile.body = SpaceJoin(Finals(transcriber.rec))

\* the transport disconnected with an utterance in progress, and the
\* artifact holds it after the earlier Final
C4_Witness ==
    /\ pc = "done"
    /\ exitCause = "disconnect"
    /\ HasSession
    /\ reports.stopped = 1
    /\ Len(transcriber.final_transcripts) = 2
    /\ partial_line = transcriber.final_transcripts[2]
    /\ Written # {}
    /\ LatestFile.body = SpaceJoin(transcriber.final_transcripts)

(***************************************************************************)
(* C5: when stop_transcription runs while the engine holds trailing text   *)
(* that carries speech, and the flush returns, that text is appended as    *)
(* the last segment before the save, and the artifact written by this call *)
(* ends with it.                                                           *)
(***************************************************************************)
C5_FlushedTextIsLastSegment ==
    [][ ( /\ HasSession
          /\ StopStep
          /\ HasSpeech(transcriber.rec.held)
          /\ transcriber'.rec.flush_faults = transcriber.rec.flush_faults )
        => /\ transcriber'.final_transcripts =
                Append(transcriber.final_transcripts, transcriber.rec.held)
           /\ transcriber'.rec.held = <<>>
           /\ writes' > writes =>
                files'[now'].body =
                    SpaceJoin(Append(transcriber.final_transcripts,
                                     transcriber.rec.held)) ]_vars

\* the stop event found a Partial on the console line; it is now the last of
\* two segments and the artifact is written
C5_Witness ==
    /\ pc = "finally"
    /\ exitCause = "stop"
    /\ HasSession
    /\ writes = 1
    /\ transcriber.rec.flush_faults = 0
    /\ Len(transcriber.final_transcripts) = 2
    /\ partial_line = transcriber.final_transcripts[2]
    /\ partial_line # transcriber.final_transcripts[1]
    /\ LatestFile.body = transcriber.final_transcripts[1] \o <<" ">>
                           \o partial_line

(***************************************************************************)
(* C6: a session stopped with no Final that carries speech (the flush      *)
(* result included) has written no artifact; every stop call reported      *)
(* "No transcript to save." and none raised or reported a save error.      *)
(***************************************************************************)
C6_EmptyCallIsNoOp ==
    ( /\ HasSession
      /\ reports.stopped >= 1
      /\ Finals(transcriber.rec) = <<>> )
    => /\ Written = {}
       /\ writes = 0
       /\ reports.nothing = reports.stopped
       /\ reports.saved = 0
       /\ reports.save_error = 0
       /\ reports.cleanup_error = 0
       /\ ~raised

\* a call with only an empty and a whitespace-only Final ended by stop
C6_Witness ==
    /\ pc = "done"
    /\ exitCause = "stop"
    /\ HasSession
    /\ Finals(transcriber.rec) = <<>>
    /\ \E i \in 1..Len(transcriber.rec.emitted) :
         transcriber.rec.emitted[i] = <<" ">>
    /\ reports.nothing = 2
    /\ Written = {}

(***************************************************************************)
(* C7: each Final the engine returns is appended unchanged when it carries *)
(* a non-whitespace character and is discarded otherwise; a step in which  *)
(* the engine returns no Final leaves the transcript as it is; the body of *)
(* an artifact is the segments joined by single spaces.  Finals "a", "",   *)
(* "b" give the body "a b".                                                *)
(***************************************************************************)
C7_AddFinalAndJoin ==
    [][ ( HasSession /\ transcriber' # None /\ lastEvent' # "connected" )
        => LET e == transcriber.rec.emitted
               e2 == transcriber'.rec.emitted
               ft == transcriber.final_transcripts
               ft2 == transcriber'.final_transcripts
           IN  /\ e2 = e => ft2 = ft
               /\ e2 # e =>
                    /\ Len(e2) = Len(e) + 1
                    /\ SubSeq(e2, 1, Len(e)) = e
                    /\ ft2 = IF HasSpeech(e2[Len(e2)])
                             THEN ft \o <<e2[Len(e2)]>>
                             ELSE ft
               /\ writes' > writes => files'[now'].body = SpaceJoin(ft2)
               /\ ( writes' > writes
                    /\ e2 = << <<"a">>, <<>>, <<"b">>, <<>> >> )
                  => files'[now'].body = <<"a", " ", "b">> ]_vars

\* Finals "a", "", "b", then the stop: the artifact body is "a b"
C7_Witness ==
    /\ HasSession
    /\ lastEvent = "stop"
    /\ transcriber.rec.emitted = << <<"a">>, <<>>, <<"b">>, <<>> >>
    /\ transcriber.final_transcripts = << <<"a">>, <<"b">> >>
    /\ writes = 1
    /\ LatestFile.body = <<"a", " ", "b">>

(***************************************************************************)
(* C8: a media frame for a session that is not active, or for a handler    *)
(* that holds no session, is dropped: session, engine, console line and    *)
(* artifacts are unchanged, nothing is raised, no error is reported, and   *)
(* the handler stays where it is.                                          *)
(***************************************************************************)
C8_InactiveFrameDropped ==
    [][ ( /\ nEvents' = nEvents + 1
          /\ lastEvent' \in {"media", "process_audio"}
          /\ (transcriber = None \/ ~transcriber.is_active) )
        => /\ transcriber' = transcriber
           /\ partial_line' = partial_line
           /\ files' = files
           /\ writes' = writes
           /\ pc' = pc
           /\ ~raised'
           /\ reports'.audio_error = reports.audio_error
           /\ reports'.ws_error = reports.ws_error ]_vars

\* a frame handed to a stopped session that holds a transcript
C8_Witness ==
    /\ pc = "api"
    /\ lastEvent = "process_audio"
    /\ ~transcriber.is_active
    /\ reports.stopped >= 1
    /\ transcriber.final_transcripts # <<>>
    /\ writes = 1

(***************************************************************************)
(* C9: between stream-connected and stream-start the session is Created,   *)
(* its active flag is false, and no media frame is processed.              *)
(***************************************************************************)
C9_CreatedUntilStart ==
    (pc = "recv" /\ HasSession /\ ~startSeen)
    => /\ ~transcriber.is_active
       /\ transcriber.rec.emitted = <<>>
       /\ transcriber.rec.held = <<>>

(***************************************************************************)
(* C9 as amended: the session becomes Active on stream-connected (the      *)
(* handler starts the transcriber in the step that constructs it), the     *)
(* session the receive loop holds is always active, and stream-start only  *)
(* resets the media counter.                                               *)
(***************************************************************************)
C9_ActiveFromConnected ==
    [][ /\ ( nEvents' = nEvents + 1 /\ lastEvent' = "connected"
             /\ pc' = "recv" )
           => /\ transcriber' # None
              /\ transcriber'.is_active
              /\ transcriber'.final_transcripts = <<>>
        /\ ( nEvents' = nEvents + 1 /\ lastEvent' = "start" )
           => /\ transcriber' = transcriber
              /\ media_count' = 0
              /\ pc' = pc
        /\ ( pc' = "recv" /\ transcriber' # None )
           => transcriber'.is_active ]_vars

\* a frame was transcribed although no start message has arrived
C9_Witness ==
    /\ pc = "recv"
    /\ HasSession
    /\ ~startSeen
    /\ lastEvent = "media"
    /\ transcriber.is_active
    /\ transcriber.final_transcripts # <<>>

(***************************************************************************)
(* C10: once stop_transcription has run on a session, the session is never *)
(* Active again.                                                           *)
(***************************************************************************)
C10_NoReentryAfterStop ==
    (HasSession /\ reports.stopped >= 1) => ~transcriber.is_active

(***************************************************************************)
(* C11: a frame whose decoding, resampling or recognition fails inside     *)
(* process_audio is logged and swallowed: nothing is raised to the caller, *)
(* the handler stays in its loop, and the session (active flag,            *)
(* transcript, engine) is exactly as before the frame, so the next frame   *)
(* is processed as if the failure had not happened.                        *)
(***************************************************************************)
C11_FrameFailureSwallowed ==
    [][ reports'.audio_error = reports.audio_error + 1
        => /\ transcriber.is_active
           /\ transcriber'.is_active
           /\ transcriber'.final_transcripts = transcriber.final_transcripts
           /\ transcriber' = transcriber
           /\ partial_line' = partial_line
           /\ pc' = pc
           /\ ~raised'
           /\ reports'.ws_error = reports.ws_error
           /\ reports'.stopped = reports.stopped ]_vars

\* two frames, one failed and one gave the Final "a"; the loop goes on
C11_Witness ==
    /\ pc = "recv"
    /\ HasSession
    /\ transcriber.is_active
    /\ reports.audio_error = 1
    /\ media_count = 2
    /\ transcriber.final_transcripts = << <<"a">> >>

(***************************************************************************)
(* C12: a media message, malformed ones included, never ends the session:  *)
(* after it the handler is still receiving, the session is still active    *)
(* and nothing was stopped or written.                                     *)
(***************************************************************************)
C12_MalformedMediaDropped ==
    [][ ( /\ nEvents' = nEvents + 1
          /\ lastEvent' = "media"
          /\ HasSession )
        => /\ pc' = "recv"
           /\ transcriber'.is_active
           /\ reports'.stopped = reports.stopped
           /\ writes' = writes ]_vars

(***************************************************************************)
(* C13: when a save has failed (os.makedirs raised, or the file could not  *)
(* be opened) the failure is logged, the session is inactive, and no       *)
(* further save is attempted for the session.                              *)
(***************************************************************************)
SaveFailed == reports.save_error > 0 \/ raised

SaveAttempts == reports.stopped - reports.nothing

C13_SaveFailureNotRetried ==
    [][ /\ SaveFailed' =>
              /\ ~transcriber'.is_active
              /\ reports'.save_error + reports'.ws_error
                   + reports'.cleanup_error > 0
        /\ SaveFailed => SaveAttempts' = SaveAttempts ]_vars

(***************************************************************************)
(* Model selection: find_model_directory and TwilioTranscriber.__init__    *)
(* Names, language codes and patterns are character sequences, so that     *)
(* "pattern in item.lower()" is computed.                                  *)
(***************************************************************************)
\* p in s
Contains(p, s) ==
    \E i \in 0..(Len(s) - Len(p)) : SubSeq(s, i + 1, i + Len(p)) = p

\* str.lower(), for the capitals that occur in the names below
LowerChar(c) ==
    CASE c = "V" -> "v"
      [] c = "M" -> "m"
      [] c = "F" -> "f"
      [] c = "H" -> "h"
      [] c = "I" -> "i"
      [] OTHER -> c

Lower(s) == [i \in 1..Len(s) |-> LowerChar(s[i])]

LangEn ==
    <<"e", "n">>

LangHi ==
    <<"h", "i">>

\* SUPPORTED_LANGUAGES
SUPPORTED_LANGUAGES == {LangEn, LangHi}

PatSmallEn ==
    <<"v", "o", "s", "k", "-", "m", "o", "d", "e", "l", "-", "s", "m",
    "a", "l", "l", "-", "e", "n", "-", "u", "s", "-", "0", ".", "1", "5">>

PatEnUs ==
    <<"v", "o", "s", "k", "-", "m", "o", "d", "e", "l", "-", "e", "n",
    "-", "u", "s">>

PatEn ==
    <<"v", "o", "s", "k", "-", "m", "o", "d", "e", "l", "-", "e", "n">>

PatSmallHi ==
    <<"v", "o", "s", "k", "-", "m", "o", "d", "e", "l", "-", "s", "m",
    "a", "l", "l", "-", "h", "i", "-", "0", ".", "2", "2">>

PatHiPadded ==
    <<"v", "o", "s", "k", "-", "m", "o", "d", "e", "l", "-", "h", "i",
    " ", " ", " ">>

PatHi ==
    <<"v", "o", "s", "k", "-", "m", "o", "d", "e", "l", "-", "h", "i">>

PatGeneric ==
    <<"v", "o", "s", "k", "-", "m", "o", "d", "e", "l">>

\* MODEL_PATTERNS: the patterns of a language, in list order
MODEL_PATTERNS(lang) ==
    IF lang = LangEn THEN <<PatSmallEn, PatEnUs, PatEn>>
    ELSE IF lang = LangHi THEN <<PatSmallHi, PatHiPadded, PatHi>>
    ELSE <<>>

\* directory names that may be present under VOSK_MODELS_DIR
DirSmallEn ==
    <<"v", "o", "s", "k", "-", "m", "o", "d", "e", "l", "-", "s", "m",
    "a", "l", "l", "-", "e", "n", "-", "u", "s", "-", "0", ".", "1", "5">>

DirEnUs ==
    <<"v", "o", "s", "k", "-", "m", "o", "d", "e", "l", "-", "e", "n",
    "-", "u", "s", "-", "0", ".", "2", "2">>

DirSmallHi ==
    <<"v", "o", "s", "k", "-", "m", "o", "d", "e", "l", "-", "s", "m",
    "a", "l", "l", "-", "h", "i", "-", "0", ".", "2", "2">>

DirFr ==
    <<"V", "o", "s", "k", "-", "M", "o", "d", "e", "l", "-", "F", "r">>

DirTranscripts ==
    <<"t", "r", "a", "n", "s", "c", "r", "i", "p", "t", "s">>

DirModel ==
    <<"m", "o", "d", "e", "l">>


\* a directory entry: kind is "file", "dir" (no am/ inside) or "model"
\* (a directory with am/ inside); an explicit path may also be "missing"
IsDir(item) == item.kind \in {"dir", "model"}

HasAm(item) == item.kind = "model"

NotFound == [name |-> <<>>, kind |-> "none"]

NoLanguage == <<>>

\* the first item of the listing that is a directory, carries one of the
\* patterns in its lowered name and holds am/
RECURSIVE FirstWithPattern(_, _)
FirstWithPattern(listing, patterns) ==
    IF listing = <<>> THEN NotFound
    ELSE LET item == Head(listing) IN
         IF /\ IsDir(item)
            /\ \E k \in 1..Len(patterns) :
                 Contains(patterns[k], Lower(item.name))
            /\ HasAm(item)
         THEN item
         ELSE FirstWithPattern(Tail(listing), patterns)

\* find_model_directory that gives up when the language has no model
find_model_directory_no_fallback(language, base_exists, listing) ==
    IF ~base_exists THEN NotFound
    ELSE IF language # NoLanguage /\ MODEL_PATTERNS(Lower(language)) # <<>>
    THEN FirstWithPattern(listing, MODEL_PATTERNS(Lower(language)))
    ELSE IF language # NoLanguage THEN NotFound
    ELSE FirstWithPattern(listing, <<PatGeneric>>)

\* the first directory that carries one of the patterns, am/ or not
RECURSIVE FirstNamedLike(_, _)
FirstNamedLike(listing, patterns) ==
    IF listing = <<>> THEN NotFound
    ELSE LET item == Head(listing) IN
         IF /\ IsDir(item)
            /\ \E k \in 1..Len(patterns) :
                 Contains(patterns[k], Lower(item.name))
         THEN item
         ELSE FirstNamedLike(Tail(listing), patterns)

\* find_model_directory that does not look for am/ inside the directory
find_model_directory_skips_am(language, base_exists, listing) ==
    IF ~base_exists THEN NotFound
    ELSE LET specific ==
                 IF language # NoLanguage
                    /\ MODEL_PATTERNS(Lower(language)) # <<>>
                 THEN FirstNamedLike(listing, MODEL_PATTERNS(Lower(language)))
                 ELSE NotFound
         IN  IF specific # NotFound THEN specific
             ELSE FirstNamedLike(listing, <<PatGeneric>>)

find_model_directory(language, base_exists, listing) ==
    IF ~base_exists THEN NotFound
    ELSE LET specific ==
                 IF language # NoLanguage
                    /\ MODEL_PATTERNS(Lower(language)) # <<>>
                 THEN FirstWithPattern(listing,
                                       MODEL_PATTERNS(Lower(language)))
                 ELSE NotFound
         IN  IF specific # NotFound THEN specific
             ELSE FirstWithPattern(listing, <<PatGeneric>>)

\* the language read off the model's directory name
DetectedLanguage(model_name) ==
    IF Contains(LangEn, model_name) /\ ~Contains(LangHi, model_name)
    THEN LangEn
    ELSE IF Contains(LangHi, model_name) THEN LangHi
    ELSE NoLanguage

\* __init__ that shows the language of the model whenever it detects one
ConstructShowsDetected(model_path, language, base_exists, listing, cwd_model) ==
    LET found == IF model_path # NotFound THEN model_path
                 ELSE find_model_directory(language, base_exists, listing)
        chosen == IF found # NotFound THEN found
                  ELSE IF cwd_model.kind = "model" THEN cwd_model
                  ELSE NotFound
        failure == IF chosen = NotFound THEN "not_found"
                   ELSE IF chosen.kind = "missing" THEN "missing"
                   ELSE IF ~HasAm(chosen) THEN "invalid"
                   ELSE "none"
        detected_lang == DetectedLanguage(Lower(chosen.name))
        unsupported == language # NoLanguage
                       /\ Lower(language) \notin SUPPORTED_LANGUAGES
        shown == IF language = NoLanguage \/ unsupported
                    \/ detected_lang # NoLanguage
                 THEN detected_lang
                 ELSE Lower(language)
    IN  IF failure # "none"
        THEN [raised |-> TRUE, error |-> failure, model |-> NotFound,
              language |-> NoLanguage, warned |-> FALSE, is_active |-> FALSE]
        ELSE [raised |-> FALSE, error |-> "none", model |-> chosen,
              language |-> shown, warned |-> unsupported,
              is_active |-> FALSE]

\* TwilioTranscriber.__init__(model_path, language) in an environment:
\* VOSK_MODELS_DIR exists or not and lists `listing`; ./model is `cwd_model`
Construct(model_path, language, base_exists, listing, cwd_model) ==
    LET found == IF model_path # NotFound THEN model_path
                 ELSE find_model_directory(language, base_exists, listing)
        chosen == IF found # NotFound THEN found
                  ELSE IF cwd_model.kind = "model" THEN cwd_model
                  ELSE NotFound
        failure == IF chosen = NotFound THEN "not_found"
                   ELSE IF chosen.kind = "missing" THEN "missing"
                   ELSE IF ~HasAm(chosen) THEN "invalid"
                   ELSE "none"
        detected_lang == DetectedLanguage(Lower(chosen.name))
        unsupported == language # NoLanguage
                       /\ Lower(language) \notin SUPPORTED_LANGUAGES
        shown == IF language = NoLanguage \/ unsupported THEN detected_lang
                 ELSE Lower(language)
    IN  IF failure # "none"
        THEN [raised |-> TRUE, error |-> failure, model |-> NotFound,
              language |-> NoLanguage, warned |-> FALSE, is_active |-> FALSE]
        ELSE [raised |-> FALSE, error |-> "none", model |-> chosen,
              language |-> shown, warned |-> unsupported,
              is_active |-> FALSE]

(***************************************************************************)
(* One construction, in every environment within the bounds                *)
(***************************************************************************)
DirNames == {DirSmallEn, DirEnUs, DirSmallHi, DirFr, DirTranscripts}

Entries == [name : DirNames, kind : {"file", "dir", "model"}]

\* os.listdir order is arbitrary; names are distinct
Listings ==
    {l \in UNION {[1..n -> Entries] : n \in 0..MaxListing} :
       \A i, j \in 1..Len(l) : i # j => l[i].name # l[j].name}

RequestedLanguages == {NoLanguage, LangEn, LangHi, <<"f", "r">>, <<"H", "I">>}

\* model_path: None, or an explicit path
ModelPaths ==
    {NotFound} \cup {[name |-> DirSmallHi, kind |-> k] :
                       k \in {"missing", "dir", "model"}}

CwdModels == {[name |-> DirModel, kind |-> k] : k \in {"missing", "model"}}

Pending == [raised |-> FALSE, error |-> "pending", model |-> NotFound,
            language |-> NoLanguage, warned |-> FALSE, is_active |-> FALSE]

\* the handler is not part of this specification
HandlerUnused ==
    /\ pc = "unused"
    /\ transcriber = None
    /\ media_count = 0
    /\ files = [t \in Stamps |-> NoFile]
    /\ writes = 0
    /\ now = 0
    /\ reports = NoReports
    /\ partial_line = <<>>
    /\ nEvents = 0
    /\ lastEvent = "none"
    /\ startSeen = FALSE
    /\ exitCause = "none"
    /\ raised = FALSE

InitModel ==
    /\ HandlerUnused
    /\ construction \in
         [used : {TRUE}, phase : {"args"}, model_path : ModelPaths,
          language : RequestedLanguages, base_exists : BOOLEAN,
          listing : Listings, cwd_model : CwdModels, result : {Pending}]
    /\ resampler = Unused
    /\ sessions = Unused
    /\ threads = Unused
    /\ displays = Unused
    /\ recorder = Unused

RunConstruct ==
    /\ construction.used
    /\ construction.phase = "args"
    /\ construction' =
         [construction EXCEPT
            !.phase = "done",
            !.result = Construct(construction.model_path,
                                 construction.language,
                                 construction.base_exists,
                                 construction.listing,
                                 construction.cwd_model)]
    /\ UNCHANGED <<vars, resampler, sessions, threads, displays, recorder>>

NextModel == RunConstruct

SpecModel == InitModel /\ [][NextModel]_allvars

\* the construction on its own, or the handler with the construction's
\* outcome (found or raised) as its input
InitCtor == Init \/ InitModel

NextCtor == Next \/ NextModel

SpecCtor == InitCtor /\ [][NextCtor]_allvars

\* the valid model directories the generic search accepts, by position
ValidGeneric(listing) ==
    {i \in 1..Len(listing) :
       /\ listing[i].kind = "model"
       /\ Contains(PatGeneric, Lower(listing[i].name))}

\* the valid directories that carry a pattern of the language
ValidFor(listing, lang) ==
    {i \in 1..Len(listing) :
       /\ listing[i].kind = "model"
       /\ \E k \in 1..Len(MODEL_PATTERNS(lang)) :
            Contains(MODEL_PATTERNS(lang)[k], Lower(listing[i].name))}

Least(S) == CHOOSE i \in S : \A j \in S : i <= j

Constructed == construction.used /\ construction.phase = "done"

Unsupported(lang) == lang # NoLanguage /\ Lower(lang) \notin {LangEn, LangHi}

\* what the automatic search can fall back on
NothingUsable(c) ==
    /\ (~c.base_exists \/ ValidGeneric(c.listing) = {})
    /\ c.cwd_model.kind # "model"

(***************************************************************************)
(* C14: constructing with a language code outside the supported set fails, *)
(* whatever model directories are present.                                 *)
(***************************************************************************)
C14_UnsupportedLanguageFails ==
    (Constructed /\ Unsupported(construction.language))
    => construction.result.raised

(***************************************************************************)
(* C14 as amended: with an unsupported language code and no explicit model *)
(* path, construction fails only when no valid model directory is found;   *)
(* otherwise it warns, takes the first valid vosk-model directory of the   *)
(* listing (else ./model) and shows the language read off that name.       *)
(***************************************************************************)
C14_UnsupportedLanguageFallsBack ==
    ( /\ Constructed
      /\ Unsupported(construction.language)
      /\ construction.model_path = NotFound )
    => LET c == construction
           r == construction.result
       IN  /\ r.raised <=> NothingUsable(c)
           /\ ~r.raised =>
                /\ r.warned
                /\ r.model =
                     IF c.base_exists /\ ValidGeneric(c.listing) # {}
                     THEN c.listing[Least(ValidGeneric(c.listing))]
                     ELSE c.cwd_model
                /\ r.language = DetectedLanguage(Lower(r.model.name))

\* "fr" was requested, the English model is taken and English is shown
C14_Witness ==
    /\ Constructed
    /\ construction.language = <<"f", "r">>
    /\ construction.model_path = NotFound
    /\ ~construction.result.raised
    /\ construction.result.warned
    /\ construction.result.model.name = DirSmallEn
    /\ construction.result.language = LangEn

(***************************************************************************)
(* C15: if no usable model can be located, construction raises, the        *)
(* handler holds no session and nothing is processed or written for the    *)
(* stream; and construction never proceeds with a model that does not      *)
(* match the requested language.                                           *)
(***************************************************************************)
C15_NoGuessedModel ==
    /\ ( /\ Constructed
         /\ construction.model_path = NotFound
         /\ NothingUsable(construction) ) => construction.result.raised
    /\ ( /\ Constructed
         /\ construction.model_path = NotFound
         /\ construction.language # NoLanguage
         /\ ~construction.result.raised )
       => DetectedLanguage(Lower(construction.result.model.name))
            \in {Lower(construction.language), NoLanguage}

\* a "connected" message whose construction raised
ConstructionFailedStep ==
    /\ nEvents' = nEvents + 1
    /\ lastEvent' = "connected"
    /\ reports'.started = reports.started

(***************************************************************************)
(* C15 as amended: construction with no explicit path raises exactly when  *)
(* neither a valid vosk-model directory nor ./model is found, and then     *)
(* yields no session; a supported language with no valid directory of its  *)
(* own falls back, without a warning, on the first valid vosk-model        *)
(* directory (else ./model).  In the handler a failed construction leaves  *)
(* the held session as it was, ends the receive loop and writes nothing;   *)
(* a stream on which no construction succeeded holds no session,           *)
(* processes no frame and writes no artifact.                              *)
(***************************************************************************)
C15_RaisesIffNothingUsable ==
    [][ /\ ( /\ construction'.used
             /\ construction'.phase = "done"
             /\ construction'.model_path = NotFound )
           => LET c == construction'
                  r == construction'.result
              IN  /\ r.raised <=> NothingUsable(c)
                  /\ r.raised => r.model = NotFound /\ ~r.is_active
                  /\ ( /\ ~r.raised
                       /\ Lower(c.language) \in {LangEn, LangHi}
                       /\ (~c.base_exists
                             \/ ValidFor(c.listing, Lower(c.language)) = {}) )
                     => /\ ~r.warned
                        /\ r.language = Lower(c.language)
                        /\ r.model =
                             IF c.base_exists /\ ValidGeneric(c.listing) # {}
                             THEN c.listing[Least(ValidGeneric(c.listing))]
                             ELSE c.cwd_model
        /\ ConstructionFailedStep
           => /\ transcriber' = transcriber
              /\ pc' = "finally"
              /\ writes' = writes
              /\ files' = files
        /\ reports'.started = 0
           => /\ transcriber' = None
              /\ writes' = 0
              /\ reports'.stopped = 0
              /\ reports'.audio_error = 0
              /\ \A t \in Stamps : files'[t] = NoFile ]_allvars

\* Hindi was requested, only an English model is there: it is taken, Hindi
\* is shown and no warning is printed
C15_FallbackReached ==
    /\ Constructed
    /\ construction.model_path = NotFound
    /\ construction.language = LangHi
    /\ ~construction.result.raised
    /\ ~construction.result.warned
    /\ construction.result.model.name = DirSmallEn
    /\ construction.result.language = LangHi

\* the handler after a construction that raised as the stream's first message
C15_Witness ==
    /\ pc = "done"
    /\ exitCause = "exception"
    /\ nEvents = 1
    /\ reports.started = 0
    /\ reports.ws_error = 1
    /\ transcriber = None

(***************************************************************************)
(* The audio path of process_audio: audioop.ulaw2lin and audioop.ratecv    *)
(***************************************************************************)
TWILIO_SAMPLE_RATE == 8000
VOSK_SAMPLE_RATE == 16000

\* mu-law bytes a frame is made of: 0x7E decodes to -8, 0xEF to 132
ULawBytes == {126, 239}

Frames == UNION {[1..n -> ULawBytes] : n \in 0..MaxFrameLen}

RECURSIVE Pow2(_)
Pow2(n) == IF n = 0 THEN 1 ELSE 2 * Pow2(n - 1)

\* one byte of audioop.ulaw2lin(_, 2): the G.711 decoding table
st_ulaw2linear16(u) ==
    LET v == 255 - u
        t == ((v % 16) * 8 + 132) * Pow2((v \div 16) % 8)
    IN  IF v >= 128 THEN 132 - t ELSE t - 132

ulaw2lin(fragment) ==
    [i \in 1..Len(fragment) |-> st_ulaw2linear16(fragment[i])]

RECURSIVE GCD(_, _)
GCD(a, b) == IF b = 0 THEN a ELSE GCD(b, a % b)

\* ratecv divides both rates by their greatest common divisor
InRate == TWILIO_SAMPLE_RATE \div GCD(TWILIO_SAMPLE_RATE, VOSK_SAMPLE_RATE)
OutRate == VOSK_SAMPLE_RATE \div GCD(TWILIO_SAMPLE_RATE, VOSK_SAMPLE_RATE)

\* the state ratecv starts from when it is given None
InitialState == [d |-> -OutRate, prev_i |-> 0, cur_i |-> 0]

\* (int) of a quotient: towards zero
TruncDiv(a, b) == IF a >= 0 THEN a \div b ELSE -((-a) \div b)

\* one output sample: linear interpolation on 32-bit samples, then the
\* upper 16 bits
Interpolate(st) ==
    TruncDiv(st.prev_i * st.d + st.cur_i * (OutRate - st.d), OutRate)
        \div 65536

\* the conversion loop: read input while d < 0, write output while d >= 0
RECURSIVE ratecv_loop(_, _, _, _)
ratecv_loop(samples, i, st, out) ==
    IF st.d < 0
    THEN IF i > Len(samples)
         THEN [out |-> out, state |-> st]
         ELSE ratecv_loop(samples, i + 1,
                          [d |-> st.d + OutRate, prev_i |-> st.cur_i,
                           cur_i |-> samples[i] * 65536],
                          out)
    ELSE ratecv_loop(samples, i, [st EXCEPT !.d = @ - InRate],
                     Append(out, Interpolate(st)))

\* audioop.ratecv(fragment, 2, 1, TWILIO_SAMPLE_RATE, VOSK_SAMPLE_RATE, state)
StartState(state) == IF state = None THEN InitialState ELSE state

ratecv(fragment, state) == ratecv_loop(fragment, 1, StartState(state), <<>>)

\* a started session about to receive frames
InitAudio ==
    /\ pc = "audio"
    /\ transcriber = start_transcription(NewTranscriber)
    /\ media_count = 0
    /\ files = [t \in Stamps |-> NoFile]
    /\ writes = 0
    /\ now = 0
    /\ reports = Bump(NoReports, "started")
    /\ partial_line = <<>>
    /\ nEvents = 0
    /\ lastEvent = "none"
    /\ startSeen = FALSE
    /\ exitCause = "none"
    /\ raised = FALSE
    /\ construction = Unused
    /\ resampler = [used |-> TRUE, frames |-> <<>>, fed |-> <<>>,
                    state_in |-> None, state_out |-> None]
    /\ sessions = Unused
    /\ threads = Unused
    /\ displays = Unused
    /\ recorder = Unused

\* process_audio(audio_data) with the conversion spelled out: `fed` is the
\* PCM handed to AcceptWaveform so far, state_in the state ratecv started
\* from for the last frame, state_out the state it returned
AudioProcessAudio ==
    /\ pc = "audio"
    /\ resampler.used
    /\ Len(resampler.frames) < MaxFrames
    /\ \E audio_data \in Frames, outcome \in EngineOutcomes :
         LET audio == ulaw2lin(audio_data)
             cv == ratecv(audio, None)
             r == process_audio(transcriber, partial_line, reports, outcome,
                                <<"a">>)
         IN  /\ transcriber' = r.self
             /\ partial_line' = r.partial_line
             /\ reports' = r.reports
             /\ resampler' =
                  IF transcriber.is_active
                  THEN [used |-> TRUE,
                        frames |-> Append(resampler.frames, audio_data),
                        fed |-> resampler.fed \o cv.out,
                        state_in |-> StartState(None),
                        state_out |-> cv.state]
                  ELSE resampler
    /\ UNCHANGED <<pc, media_count, files, writes, now, nEvents, lastEvent,
                   startSeen, exitCause, raised>>
    /\ UNCHANGED <<construction, sessions, threads, displays, recorder>>

NextAudio == AudioProcessAudio

SpecAudio == InitAudio /\ [][NextAudio]_allvars

RECURSIVE Concat(_)
Concat(seqs) == IF seqs = <<>> THEN <<>> ELSE Head(seqs) \o Concat(Tail(seqs))

(***************************************************************************)
(* C16: the resampler's state is carried from frame to frame: the state    *)
(* used for a frame is the state the previous frame produced, and the PCM  *)
(* produced for the frames so far is the PCM of their concatenation.       *)
(***************************************************************************)
C16_ResamplerStateCarried ==
    [][ ( /\ resampler.used
          /\ Len(resampler'.frames) = Len(resampler.frames) + 1 )
        => /\ Len(resampler.frames) >= 1
                => resampler'.state_in = resampler.state_out
           /\ resampler'.fed
                = ratecv(ulaw2lin(Concat(resampler'.frames)), None).out
      ]_allvars

(***************************************************************************)
(* Two calls at the same time: two runs of transcription_websocket, each   *)
(* with its own local `transcriber`, on one filesystem, clock and console  *)
(***************************************************************************)
SessionIds == {1, 2}

\* what the recognizer of each call hears
HypOf(i) == IF i = 1 THEN {<<"a">>} ELSE {<<"b">>}

NewHandler == [pc |-> "recv", transcriber |-> None, frames |-> 0,
               names |-> <<>>]

\* a module-level `transcriber` that every handler assigns and reads
GlobalTranscriber(ss, i, t) ==
    [j \in DOMAIN ss |-> [ss[j] EXCEPT !.transcriber = t]]

\* `transcriber` is a local variable of the handler that runs call i
LocalTranscriber(ss, i, t) == [ss EXCEPT ![i].transcriber = t]

InitTwo ==
    /\ HandlerUnused
    /\ construction = Unused
    /\ resampler = Unused
    /\ sessions = [used |-> TRUE, s |-> [i \in SessionIds |-> NewHandler]]
    /\ threads = Unused
    /\ displays = Unused
    /\ recorder = Unused

TwoFrame ==
    UNCHANGED <<pc, transcriber, media_count, nEvents, lastEvent, startSeen,
                exitCause, raised, construction, resampler, threads,
                displays, recorder>>

TwoReceiving(i) == sessions.used /\ sessions.s[i].pc = "recv"

\* case "connected" of call i
TwoRecvConnected(i) ==
    /\ TwoReceiving(i)
    /\ sessions.s[i].transcriber = None
    /\ \E found \in BOOLEAN :
         IF found
         THEN /\ sessions' =
                   [sessions EXCEPT
                      !.s = LocalTranscriber(@, i,
                               start_transcription(NewTranscriber))]
              /\ reports' = Bump(reports, "started")
         ELSE /\ sessions' = [sessions EXCEPT !.s[i].pc = "finally"]
              /\ reports' = Bump(reports, "ws_error")
    /\ UNCHANGED <<files, writes, now, partial_line>>
    /\ TwoFrame

\* case "media" of call i
TwoRecvMedia(i) ==
    /\ TwoReceiving(i)
    /\ sessions.s[i].transcriber # None
    /\ sessions.s[i].frames < MaxSessionFrames
    /\ \E wellFormed \in BOOLEAN :
         IF ~wellFormed
         THEN /\ sessions' = [sessions EXCEPT !.s[i].pc = "finally",
                                              !.s[i].frames = @ + 1]
              /\ reports' = Bump(reports, "ws_error")
              /\ UNCHANGED partial_line
         ELSE \E outcome \in EngineOutcomes, hyp \in HypOf(i) :
                LET r == process_audio(sessions.s[i].transcriber,
                                       partial_line, reports, outcome, hyp)
                IN  /\ sessions' =
                         [sessions EXCEPT
                            !.s = [LocalTranscriber(@, i, r.self)
                                     EXCEPT ![i].frames = @ + 1]]
                    /\ partial_line' = r.partial_line
                    /\ reports' = r.reports
    /\ UNCHANGED <<files, writes, now>>
    /\ TwoFrame

\* stop_transcription of call i at the current second; the name it wrote,
\* if it wrote, is added to the call's names
TwoStopped(i, next_pc, in_cleanup) ==
    \E flushOutcome \in FlushOutcomes, fsOutcome \in FsOutcomes :
      LET r == stop_transcription(sessions.s[i].transcriber, files, writes,
                                  reports, now, flushOutcome, fsOutcome)
          stopped == LocalTranscriber(sessions.s, i, r.self)
      IN  /\ sessions' =
               [sessions EXCEPT
                  !.s = [stopped EXCEPT
                           ![i].pc = next_pc,
                           ![i].names = IF r.writes > writes
                                        THEN Append(@, now) ELSE @]]
          /\ files' = r.files
          /\ writes' = r.writes
          /\ reports' = IF r.raised
                        THEN Bump(r.reports, IF in_cleanup
                                             THEN "cleanup_error"
                                             ELSE "ws_error")
                        ELSE r.reports

\* case "stop" of call i
TwoRecvStop(i) ==
    /\ TwoReceiving(i)
    /\ IF sessions.s[i].transcriber = None
       THEN /\ sessions' = [sessions EXCEPT !.s[i].pc = "finally"]
            /\ UNCHANGED <<files, writes, reports>>
       ELSE TwoStopped(i, "finally", FALSE)
    /\ UNCHANGED <<now, partial_line>>
    /\ TwoFrame

\* ws.receive() of call i raises: the caller hung up
TwoRecvFail(i) ==
    /\ TwoReceiving(i)
    /\ sessions' = [sessions EXCEPT !.s[i].pc = "finally"]
    /\ reports' = Bump(reports, "ws_error")
    /\ UNCHANGED <<files, writes, now, partial_line>>
    /\ TwoFrame

\* the finally block of call i
TwoFinally(i) ==
    /\ sessions.used
    /\ sessions.s[i].pc = "finally"
    /\ IF sessions.s[i].transcriber = None
       THEN /\ sessions' = [sessions EXCEPT !.s[i].pc = "done"]
            /\ UNCHANGED <<files, writes, reports>>
       ELSE TwoStopped(i, "done", TRUE)
    /\ UNCHANGED <<now, partial_line>>
    /\ TwoFrame

TwoTick ==
    /\ sessions.used
    /\ \E i \in SessionIds : sessions.s[i].pc # "done"
    /\ now < MaxClock
    /\ now' = now + 1
    /\ UNCHANGED <<files, writes, reports, partial_line, sessions>>
    /\ TwoFrame

NextTwo ==
    \/ \E i \in SessionIds : TwoRecvConnected(i)
    \/ \E i \in SessionIds : TwoRecvMedia(i)
    \/ \E i \in SessionIds : TwoRecvStop(i)
    \/ \E i \in SessionIds : TwoRecvFail(i)
    \/ \E i \in SessionIds : TwoFinally(i)
    \/ TwoTick

SpecTwo == InitTwo /\ [][NextTwo]_allvars

\* the texts of the calls other than i
HypOfOthers(i) == UNION {HypOf(j) : j \in SessionIds \ {i}}

\* no character of a text heard on another call
Foreign(i, text) ==
    \E k \in 1..Len(text) : \E h \in HypOfOthers(i) :
       \E m \in 1..Len(h) : text[k] = h[m]

\* call i wrote its artifact in this step
TwoSaved(i) == Len(sessions'.s[i].names) = Len(sessions.s[i].names) + 1

NamesOf(i) == {sessions.s[i].names[k] : k \in 1..Len(sessions.s[i].names)}

(***************************************************************************)
(* C18: artifacts written by distinct calls have distinct names whatever   *)
(* the stop times, and a call that ended with a saved transcript leaves    *)
(* an artifact holding its own text.                                       *)
(***************************************************************************)
C18_DistinctArtifactNames ==
    sessions.used
    => /\ \A i, j \in SessionIds :
            i # j => NamesOf(i) \cap NamesOf(j) = {}
       /\ \A i \in SessionIds :
            (sessions.s[i].pc = "done" /\ NamesOf(i) # {})
            => \E t \in NamesOf(i) :
                 /\ files[t].exists
                 /\ files[t].body
                      = SpaceJoin(sessions.s[i].transcriber.final_transcripts)

(***************************************************************************)
(* Threads inside TranscriptDisplay: `with self.lock`, the console writes  *)
(* of add_final and of process_audio's partial branch                      *)
(***************************************************************************)
ThreadIds == {1, 2}

\* one TranscriptDisplay per session
DisplayIds == {1, 2}

Free == 0

NewDisplay == [final_transcripts |-> <<>>, lock |-> Free]

NewThread == [pc |-> "idle", d |-> 1, text |-> <<>>, ret |-> <<>>,
              calls |-> 0]

\* texts handed to add_final
SegmentTexts == {<<"a">>, <<" ">>}

\* a lock that is handed out without looking at its holder
acquire_unchecked(lock, t) == [ok |-> TRUE, lock |-> t]

\* threading.Lock.acquire by thread t: blocks while the lock is held
acquire(lock, t) == [ok |-> lock = Free, lock |-> t]

InitThreads ==
    /\ HandlerUnused
    /\ construction = Unused
    /\ resampler = Unused
    /\ sessions = Unused
    /\ threads = [used |-> TRUE, t |-> [i \in ThreadIds |-> NewThread]]
    /\ displays = [used |-> TRUE, d |-> [i \in DisplayIds |-> NewDisplay]]
    /\ recorder = Unused

ThreadsFrame == UNCHANGED <<vars, construction, resampler, sessions, recorder>>

Idle(t) == threads.used /\ threads.t[t].pc = "idle"

At(t, label) == threads.used /\ threads.t[t].pc = label

\* thread t calls add_final(text) of display d
CallAddFinal(t) ==
    /\ Idle(t)
    /\ threads.t[t].calls < MaxCalls
    /\ \E d \in DisplayIds, text \in SegmentTexts :
         threads' = [threads EXCEPT !.t[t].pc = "af_acquire",
                                    !.t[t].d = d,
                                    !.t[t].text = text,
                                    !.t[t].calls = @ + 1]
    /\ UNCHANGED displays
    /\ ThreadsFrame

\* with self.lock: (entry)
AddFinalAcquire(t) ==
    /\ At(t, "af_acquire")
    /\ LET d == threads.t[t].d
           a == acquire(displays.d[d].lock, t)
       IN  /\ a.ok
           /\ displays' = [displays EXCEPT !.d[d].lock = a.lock]
    /\ threads' = [threads EXCEPT !.t[t].pc = "af_locked"]
    /\ ThreadsFrame

\* if text.strip(): self.final_transcripts.append(text), then print begins;
\* otherwise the with block ends and the lock is released
AddFinalAppend(t) ==
    /\ At(t, "af_locked")
    /\ LET d == threads.t[t].d
           text == threads.t[t].text
       IN  IF Strip(text) # <<>>
           THEN /\ displays' =
                     [displays EXCEPT
                        !.d[d].final_transcripts = add_final(@, text)]
                /\ threads' = [threads EXCEPT !.t[t].pc = "af_print"]
           ELSE /\ displays' = [displays EXCEPT !.d[d].lock = Free]
                /\ threads' = [threads EXCEPT !.t[t].pc = "idle"]
    /\ ThreadsFrame

\* print(text + ' ', ...) returns, the with block ends
AddFinalPrinted(t) ==
    /\ At(t, "af_print")
    /\ displays' = [displays EXCEPT !.d[threads.t[t].d].lock = Free]
    /\ threads' = [threads EXCEPT !.t[t].pc = "idle"]
    /\ ThreadsFrame

\* thread t calls get_full_transcript() of display d
CallGetFullTranscript(t) ==
    /\ Idle(t)
    /\ threads.t[t].calls < MaxCalls
    /\ \E d \in DisplayIds :
         threads' = [threads EXCEPT !.t[t].pc = "gft_acquire",
                                    !.t[t].d = d,
                                    !.t[t].calls = @ + 1]
    /\ UNCHANGED displays
    /\ ThreadsFrame

GetFullTranscriptAcquire(t) ==
    /\ At(t, "gft_acquire")
    /\ LET d == threads.t[t].d
           a == acquire(displays.d[d].lock, t)
       IN  /\ a.ok
           /\ displays' = [displays EXCEPT !.d[d].lock = a.lock]
    /\ threads' = [threads EXCEPT !.t[t].pc = "gft_locked"]
    /\ ThreadsFrame

\* return ' '.join(self.final_transcripts), the with block ends
GetFullTranscriptReturn(t) ==
    /\ At(t, "gft_locked")
    /\ LET d == threads.t[t].d
       IN  /\ threads' =
                [threads EXCEPT
                   !.t[t].pc = "idle",
                   !.t[t].ret =
                       get_full_transcript(displays.d[d].final_transcripts)]
           /\ displays' = [displays EXCEPT !.d[d].lock = Free]
    /\ ThreadsFrame

\* process_audio of session d reaches print(CL + partial['partial'] + ...)
PartialPrintBegin(t) ==
    /\ Idle(t)
    /\ threads.t[t].calls < MaxCalls
    /\ \E d \in DisplayIds :
         threads' = [threads EXCEPT !.t[t].pc = "partial_print",
                                    !.t[t].d = d,
                                    !.t[t].calls = @ + 1]
    /\ UNCHANGED displays
    /\ ThreadsFrame

\* that print returns
PartialPrintEnd(t) ==
    /\ At(t, "partial_print")
    /\ threads' = [threads EXCEPT !.t[t].pc = "idle"]
    /\ UNCHANGED displays
    /\ ThreadsFrame

NextThreads ==
    \/ \E t \in ThreadIds : CallAddFinal(t)
    \/ \E t \in ThreadIds : AddFinalAcquire(t)
    \/ \E t \in ThreadIds : AddFinalAppend(t)
    \/ \E t \in ThreadIds : AddFinalPrinted(t)
    \/ \E t \in ThreadIds : CallGetFullTranscript(t)
    \/ \E t \in ThreadIds : GetFullTranscriptAcquire(t)
    \/ \E t \in ThreadIds : GetFullTranscriptReturn(t)
    \/ \E t \in ThreadIds : PartialPrintBegin(t)
    \/ \E t \in ThreadIds : PartialPrintEnd(t)

SpecThreads == InitThreads /\ [][NextThreads]_allvars

\* thread t is writing to the console
InDisplayWrite(t) == threads.t[t].pc \in {"af_print", "partial_print"}

(***************************************************************************)
(* C19: writes to the console from concurrent sessions are serialized by   *)
(* one shared lock: no two sessions are inside a console write at the      *)
(* same time.                                                              *)
(***************************************************************************)
C19_DisplayWritesSerialized ==
    threads.used
    => \A t1, t2 \in ThreadIds :
         ( /\ t1 # t2
           /\ threads.t[t1].d # threads.t[t2].d
           /\ InDisplayWrite(t1) )
         => ~InDisplayWrite(t2)

\* thread t is inside `with self.lock` of its display
InCritical(t) == threads.t[t].pc \in {"af_locked", "af_print", "gft_locked"}

Prefixes(segs) == {SubSeq(segs, 1, k) : k \in 0..Len(segs)}

(***************************************************************************)
(* C20: add_final and get_full_transcript of one display exclude each      *)
(* other: two threads are never both inside the locked part of the same    *)
(* display, the lock is held by the thread inside; every value returned by *)
(* get_full_transcript is the space-join of a prefix of the segments       *)
(* appended so far, and the appending step of an add_final call adds       *)
(* exactly its own segment at the end.                                     *)
(***************************************************************************)
C20_AddFinalGetExclusive ==
    [][ threads'.used
        => /\ \A t1, t2 \in ThreadIds :
                ( /\ t1 # t2
                  /\ threads'.t[t1].d = threads'.t[t2].d
                  /\ threads'.t[t1].pc \in {"af_locked", "af_print",
                                            "gft_locked"} )
                => threads'.t[t2].pc \notin {"af_locked", "af_print",
                                             "gft_locked"}
           /\ \A t \in ThreadIds :
                /\ threads'.t[t].pc \in {"af_locked", "af_print",
                                         "gft_locked"}
                   => displays'.d[threads'.t[t].d].lock = t
                /\ ( threads.t[t].pc = "gft_locked"
                     /\ threads'.t[t].pc = "idle" )
                   => \E p \in Prefixes(
                               displays'.d[threads.t[t].d].final_transcripts) :
                        threads'.t[t].ret = SpaceJoin(p)
                /\ ( threads.t[t].pc = "af_locked"
                     /\ threads'.t[t].pc = "af_print" )
                   => /\ displays'.d[threads.t[t].d].final_transcripts
                           = Append(
                               displays.d[threads.t[t].d].final_transcripts,
                               threads.t[t].text)
                      /\ \A e \in DisplayIds \ {threads.t[t].d} :
                           displays'.d[e] = displays.d[e]
      ]_allvars

\* one thread has read "a" from display 1 and waits to append to it,
\* while the other is inside the display's locked part reading it
C20_Witness ==
    /\ threads.used
    /\ threads.t[1].pc = "af_acquire"
    /\ threads.t[1].d = 1
    /\ threads.t[1].ret = <<"a">>
    /\ threads.t[2].pc = "gft_locked"
    /\ threads.t[2].d = 1
    /\ displays.d[1].lock = 2

IsPrefix(p, q) == Len(p) <= Len(q) /\ SubSeq(q, 1, Len(p)) = p

\* the handler constructed a new session in this step
ConstructedStep ==
    /\ nEvents' = nEvents + 1
    /\ lastEvent' = "connected"
    /\ reports'.started = reports.started + 1

(***************************************************************************)
(* C21: the transcript of a session is append-only: it is empty when the   *)
(* session is created and, from one state to the next, the earlier        *)
(* sequence of segments is a prefix of the later one.                      *)
(***************************************************************************)
C21_TranscriptAppendOnly ==
    [][ /\ (nEvents = 0 /\ HasSession)
           => transcriber.final_transcripts = <<>>
        /\ ConstructedStep => transcriber'.final_transcripts = <<>>
        /\ (HasSession /\ ~ConstructedStep)
           => /\ transcriber' # None
              /\ IsPrefix(transcriber.final_transcripts,
                          transcriber'.final_transcripts) ]_vars

\* a transcript that grew twice: "a", then "b" behind it
C21_Witness ==
    /\ HasSession
    /\ transcriber.final_transcripts = << <<"a">>, <<"b">> >>

(***************************************************************************)
(* C22: a persisted artifact has the fixed layout, in this order: the      *)
(* header line with the save timestamp, the separator, the full            *)
(* transcript text, a trailing newline; the text is the transcript         *)
(* materialized after the flush.                                           *)
(***************************************************************************)
C22_ArtifactLayout ==
    [][ writes' = writes + 1
        => LET f == files'[now]
           IN  /\ f.exists
               /\ Len(f.content) = 4
               /\ f.content[1].part = "header"
               /\ f.content[1].stamp = now
               /\ f.content[2].part = "separator"
               /\ f.content[3].part = "text"
               /\ f.content[3].text
                    = SpaceJoin(transcriber'.final_transcripts)
               /\ f.content[3].text = SpaceJoin(Finals(transcriber'.rec))
               /\ f.content[4].part = "newline"
               /\ f.body = f.content[3].text ]_vars

\* an artifact whose text ends with the segment the flush produced
C22_Witness ==
    /\ HasSession
    /\ ~transcriber.is_active
    /\ transcriber.rec.emitted = << <<"a">>, <<"b">> >>
    /\ files[1].exists
    /\ files[1].content[1] = [part |-> "header", stamp |-> 1]
    /\ files[1].content[3] = [part |-> "text", text |-> <<"a", " ", "b">>]

\* the session has been stopped and its transcript written
StoppedAndPersisted ==
    /\ HasSession
    /\ reports.stopped > 0
    /\ reports.saved > 0

(***************************************************************************)
(* C23: once the session has been stopped and persisted its transcript is  *)
(* frozen: no later media frame, repeated stop or start appends a segment. *)
(***************************************************************************)
C23_FrozenAfterPersist ==
    [][ StoppedAndPersisted
        => /\ transcriber' # None
           /\ transcriber'.final_transcripts = transcriber.final_transcripts
      ]_vars

\* the valid directories of the listing that carry pattern k of the language
ValidForPattern(listing, lang, k) ==
    {i \in 1..Len(listing) :
       /\ listing[i].kind = "model"
       /\ Contains(MODEL_PATTERNS(lang)[k], Lower(listing[i].name))}

\* the earliest pattern of the language that some valid directory carries
EarliestPattern(listing, lang) ==
    Least({k \in 1..Len(MODEL_PATTERNS(lang)) :
             ValidForPattern(listing, lang, k) # {}})

(***************************************************************************)
(* C24: for an explicitly requested language the lookup returns a          *)
(* directory matching the earliest pattern of the language's list that     *)
(* any directory matches, whatever the order of the listing; it falls      *)
(* back to a generic model directory only when no directory matches a      *)
(* pattern of the language.                                                *)
(***************************************************************************)
C24_EarliestPatternWins ==
    ( /\ Constructed
      /\ construction.model_path = NotFound
      /\ construction.base_exists
      /\ Lower(construction.language) \in {LangEn, LangHi} )
    => LET c == construction
           lang == Lower(construction.language)
           r == construction.result
       IN  IF ValidFor(c.listing, lang) # {}
           THEN /\ ~r.raised
                /\ \E i \in ValidForPattern(c.listing, lang,
                                            EarliestPattern(c.listing, lang)) :
                     r.model = c.listing[i]
           ELSE IF ValidGeneric(c.listing) # {}
           THEN /\ ~r.raised
                /\ r.model = c.listing[Least(ValidGeneric(c.listing))]
           ELSE r.raised \/ r.model = c.cwd_model

\* the language read off the name of the model the recognizer was built from
DetectedOf(r) == DetectedLanguage(Lower(r.model.name))

\* a requested language that the name of the selected model contradicts
Conflict(c, r) ==
    /\ c.language # NoLanguage
    /\ DetectedOf(r) # NoLanguage
    /\ DetectedOf(r) # Lower(c.language)

(***************************************************************************)
(* C25: when the language detected from the selected model conflicts with  *)
(* the requested language, the language shown is the detected one, and     *)
(* the recognizer is the one built from the selected model.                *)
(***************************************************************************)
C25_DetectedLanguageShown ==
    ( /\ Constructed
      /\ ~construction.result.raised
      /\ Conflict(construction, construction.result) )
    => /\ construction.result.language = DetectedOf(construction.result)
       /\ construction.result.model.kind = "model"

(***************************************************************************)
(* C25 as amended: a requested language of the supported set is the        *)
(* language shown, also when the name of the selected model indicates      *)
(* another one; the detected language is shown only when no language was   *)
(* requested or the requested code is unsupported (then with a warning).   *)
(* In every case the recognizer is built from the selected model: the      *)
(* explicit path if one was given, else a valid directory of the listing   *)
(* or ./model.                                                             *)
(***************************************************************************)
C25_RequestedLanguageShown ==
    (Constructed /\ ~construction.result.raised)
    => LET c == construction
           r == construction.result
       IN  /\ r.language =
                IF c.language = NoLanguage \/ Unsupported(c.language)
                THEN DetectedOf(r) ELSE Lower(c.language)
           /\ r.warned <=> Unsupported(c.language)
           /\ r.model.kind = "model"
           /\ IF c.model_path # NotFound THEN r.model = c.model_path
              ELSE \/ r.model = c.cwd_model
                   \/ /\ c.base_exists
                      /\ \E i \in ValidGeneric(c.listing) :
                           r.model = c.listing[i]

\* English was requested with an explicit path to a Hindi model: the
\* recognizer is built from that model and English is shown
C25_Witness ==
    /\ Constructed
    /\ ~construction.result.raised
    /\ Conflict(construction, construction.result)
    /\ construction.language = LangEn
    /\ construction.model_path = [name |-> DirSmallHi, kind |-> "model"]
    /\ construction.result.model = construction.model_path
    /\ construction.result.language = LangEn

(***************************************************************************)
(* C26: every session the handler constructed is stopped before the        *)
(* handler returns, whatever the events: a session is never replaced by a  *)
(* newly constructed one while it is still unstopped, and the session held *)
(* when the handler returns has been stopped.                              *)
(***************************************************************************)
C26_EveryConstructedSessionStopped ==
    [][ /\ ConstructedStep
           => \/ transcriber = None
              \/ ~transcriber.is_active /\ reports.stopped > 0
        /\ (pc' = "done" /\ transcriber' # None)
           => ~transcriber'.is_active /\ reports'.stopped > 0 ]_vars

(***************************************************************************)
(* process_audio and stop_transcription of one session on two threads      *)
(*   threads.p : the thread calling process_audio, statement by statement  *)
(*   threads.s : the thread calling stop_transcription                     *)
(***************************************************************************)
InitRace ==
    /\ pc = "threads"
    /\ transcriber = start_transcription(NewTranscriber)
    /\ media_count = 0
    /\ files = [t \in Stamps |-> NoFile]
    /\ writes = 0
    /\ now = 0
    /\ reports = Bump(NoReports, "started")
    /\ partial_line = <<>>
    /\ nEvents = 0
    /\ lastEvent = "none"
    /\ startSeen = FALSE
    /\ exitCause = "none"
    /\ raised = FALSE
    /\ construction = Unused
    /\ resampler = Unused
    /\ sessions = Unused
    /\ threads = [used |-> TRUE,
                  p |-> [pc |-> "idle", text |-> <<>>, calls |-> 0],
                  s |-> [pc |-> "idle"]]
    /\ displays = Unused
    /\ recorder = Unused

RaceFrame ==
    UNCHANGED <<pc, media_count, now, nEvents, lastEvent, startSeen,
                exitCause, construction, resampler, sessions, displays,
                recorder>>

\* process_audio: if not self.is_active: return
ProcCheckActive ==
    /\ pc = "threads"
    /\ threads.p.pc = "idle"
    /\ threads.p.calls < MaxCalls
    /\ threads' = [threads EXCEPT
                     !.p.calls = @ + 1,
                     !.p.pc = IF transcriber.is_active THEN "accept"
                              ELSE "idle"]
    /\ UNCHANGED <<transcriber, files, writes, reports, partial_line, raised>>
    /\ RaceFrame

\* process_audio: the conversion, AcceptWaveform, Result or PartialResult
ProcAccept ==
    /\ pc = "threads"
    /\ threads.p.pc = "accept"
    /\ \E outcome \in EngineOutcomes, hyp \in Texts :
         IF outcome = "raise"
         THEN /\ reports' = Bump(reports, "audio_error")
              /\ threads' = [threads EXCEPT !.p.pc = "idle"]
              /\ UNCHANGED <<transcriber, partial_line>>
         ELSE IF outcome = "final"
         THEN /\ transcriber' =
                   [transcriber EXCEPT !.rec = EngineFinal(@, hyp)]
              /\ threads' = [threads EXCEPT
                               !.p.pc = IF hyp # <<>> THEN "add" ELSE "idle",
                               !.p.text = hyp]
              /\ UNCHANGED <<reports, partial_line>>
         ELSE /\ transcriber' =
                   [transcriber EXCEPT !.rec = EnginePartial(@, hyp)]
              /\ partial_line' = IF hyp # <<>> THEN hyp ELSE partial_line
              /\ threads' = [threads EXCEPT !.p.pc = "idle"]
              /\ UNCHANGED reports
    /\ UNCHANGED <<files, writes, raised>>
    /\ RaceFrame

\* process_audio: self.transcript_display.add_final(result['text'])
ProcAddFinal ==
    /\ pc = "threads"
    /\ threads.p.pc = "add"
    /\ transcriber' =
         [transcriber EXCEPT
            !.final_transcripts = add_final(@, threads.p.text)]
    /\ threads' = [threads EXCEPT !.p.pc = "idle"]
    /\ UNCHANGED <<files, writes, reports, partial_line, raised>>
    /\ RaceFrame

\* stop_transcription: self.is_active = False
StopDeactivate ==
    /\ pc = "threads"
    /\ threads.s.pc = "idle"
    /\ transcriber' = [transcriber EXCEPT !.is_active = FALSE]
    /\ threads' = [threads EXCEPT !.s.pc = "flush"]
    /\ UNCHANGED <<files, writes, reports, partial_line, raised>>
    /\ RaceFrame

\* stop_transcription: FinalResult and add_final inside try/except
StopFlush ==
    /\ pc = "threads"
    /\ threads.s.pc = "flush"
    /\ \E flushOutcome \in FlushOutcomes :
         transcriber' =
           IF flushOutcome = "ok"
           THEN [transcriber EXCEPT
                   !.rec = EngineFlush(transcriber.rec),
                   !.final_transcripts =
                       IF transcriber.rec.held # <<>>
                       THEN add_final(@, transcriber.rec.held) ELSE @]
           ELSE [transcriber EXCEPT
                   !.rec = EngineFlushFault(transcriber.rec)]
    /\ threads' = [threads EXCEPT !.s.pc = "save"]
    /\ UNCHANGED <<files, writes, reports, partial_line, raised>>
    /\ RaceFrame

\* stop_transcription: print, then self.transcript_display.save_to_file()
StopSave ==
    /\ pc = "threads"
    /\ threads.s.pc = "save"
    /\ \E fsOutcome \in FsOutcomes :
         LET r == save_to_file(transcriber.final_transcripts, files, writes,
                               Bump(reports, "stopped"), now, fsOutcome)
         IN  /\ files' = r.files
             /\ writes' = r.writes
             /\ reports' = r.reports
             /\ raised' = r.raised
    /\ threads' = [threads EXCEPT !.s.pc = "stopped"]
    /\ UNCHANGED <<transcriber, partial_line>>
    /\ RaceFrame

NextRace ==
    \/ ProcCheckActive
    \/ ProcAccept
    \/ ProcAddFinal
    \/ StopDeactivate
    \/ StopFlush
    \/ StopSave

SpecRace == InitRace /\ [][NextRace]_allvars

(***************************************************************************)
(* C27: with process_audio and stop_transcription of one session running   *)
(* at the same time, no segment is appended after the stop path has read   *)
(* the transcript for saving, so the artifact written holds every segment  *)
(* of the transcript.                                                      *)
(***************************************************************************)
C27_NoAppendAfterSave ==
    [][ ( /\ pc = "threads"
          /\ threads.s.pc = "stopped" )
        => /\ transcriber'.final_transcripts = transcriber.final_transcripts
           /\ writes > 0
              => files[now].body = SpaceJoin(transcriber'.final_transcripts)
      ]_allvars

(***************************************************************************)
(* The batch path: ExotelCallRecorder.run, process_call and                *)
(* transcribe_audio_whisper                                                *)
(*   recorder.pc : "run" top of the polling loop, "process_call",          *)
(*     "download", "transcribe", "poll", "transcribed", "returned"         *)
(*     (process_call returned to run), "exit" (run returned)               *)
(*   recorder.trail, recorder.polls, recorder.status, recorder.entered :   *)
(*     history (steps of the current process_call, status requests of the  *)
(*     current transcription and the last answer, calls of process_call)   *)
(***************************************************************************)
max_attempts == 60

Sids == {"CA1", "CA2"}

\* a call as the Exotel API lists it
ExotelCalls ==
    [Sid : Sids, DateCreated : {1, 2},
     Status : {"completed", "in-progress"}, RecordingUrl : BOOLEAN]

\* get_recent_calls: the list of the response, [] on any error
CallLists == UNION {[1..n -> ExotelCalls] : n \in 0..MaxRecentCalls}

\* sorted(calls, key=DateCreated, reverse=True)[0]: the first of the calls
\* with the greatest DateCreated
last_call(calls) ==
    calls[Least({i \in 1..Len(calls) :
                   \A j \in 1..Len(calls) :
                      calls[j].DateCreated <= calls[i].DateCreated})]

\* what transcribe_audio_whisper returns
NoTranscription == [has |-> FALSE]

Transcriptions ==
    [has : {TRUE}, text : {<<>>, <<"a">>}, speaker_labels : BOOLEAN]

\* a test that lets an empty text through
FalsyNoneOnly(transcription) == ~transcription.has

\* `if not transcription`
Falsy(transcription) == ~transcription.has \/ transcription.text = <<>>

\* the text process_call saves: AssemblyAI's speaker labels if it has
\* them, else format_conversation's alternating labels
Formatted(transcription) ==
    [text |-> transcription.text,
     labels |-> IF transcription.speaker_labels THEN "assemblyai"
                ELSE "alternating"]

\* a polling loop that polls once more after max_attempts
poll_again_inclusive(attempt) == attempt <= max_attempts

\* while attempt < max_attempts
poll_again(attempt) == attempt < max_attempts

NoCall == [Sid |-> "none"]

InitBatch ==
    /\ HandlerUnused
    /\ construction = Unused
    /\ resampler = Unused
    /\ sessions = Unused
    /\ threads = Unused
    /\ displays = Unused
    /\ \E continuous \in BOOLEAN :
         recorder = [used |-> TRUE, pc |-> "run", continuous |-> continuous,
                     cycle |-> 0, processed_calls |-> {}, call |-> NoCall,
                     attempt |-> 0, polls |-> 0, status |-> "none",
                     transcription |-> NoTranscription, success |-> FALSE,
                     trail |-> <<>>, entered |-> 0, transcriptions |-> {}]

BatchFrame ==
    UNCHANGED <<vars, construction, resampler, sessions, threads, displays>>

BatchAt(label) == recorder.used /\ recorder.pc = label

\* `if not continuous: break`, else time.sleep(interval) and the next cycle;
\* the locals of the finished process_call are gone
EndOfCycle(r) ==
    LET done == [r EXCEPT !.call = NoCall, !.attempt = 0, !.polls = 0,
                          !.status = "none",
                          !.transcription = NoTranscription,
                          !.success = FALSE, !.trail = <<>>]
    IN  IF r.continuous THEN [done EXCEPT !.pc = "run", !.cycle = @ + 1]
        ELSE [done EXCEPT !.pc = "exit"]

\* one pass of the loop of run up to the call of process_call
RunCycle ==
    /\ BatchAt("run")
    /\ recorder.cycle < MaxCycles
    /\ \E calls \in CallLists :
         recorder' =
           IF calls = <<>> THEN EndOfCycle(recorder)
           ELSE IF last_call(calls).Sid \in recorder.processed_calls
           THEN EndOfCycle(recorder)
           ELSE [recorder EXCEPT !.pc = "process_call",
                                 !.call = last_call(calls),
                                 !.entered = @ + 1,
                                 !.trail = <<>>,
                                 !.transcription = NoTranscription]
    /\ BatchFrame

\* process_call: the recording URL and the status
ProcessCallCheck ==
    /\ BatchAt("process_call")
    /\ recorder' =
         IF ~recorder.call.RecordingUrl
         THEN [recorder EXCEPT !.pc = "returned", !.success = FALSE]
         ELSE IF recorder.call.Status # "completed"
         THEN [recorder EXCEPT !.pc = "returned", !.success = FALSE]
         ELSE [recorder EXCEPT !.pc = "download",
                               !.trail = Append(@, "eligible")]
    /\ BatchFrame

\* process_call: download_recording returns a path or None
DownloadRecording ==
    /\ BatchAt("download")
    /\ \E ok \in BOOLEAN :
         recorder' =
           IF ok
           THEN [recorder EXCEPT !.pc = "transcribe",
                                 !.trail = Append(@, "downloaded")]
           ELSE [recorder EXCEPT !.pc = "returned", !.success = FALSE]
    /\ BatchFrame

\* transcribe_audio_whisper: upload and submission
TranscribeSubmit ==
    /\ BatchAt("transcribe")
    /\ \E outcome \in {"ok", "raise", "no_upload_url", "no_id"} :
         recorder' =
           IF outcome = "ok"
           THEN [recorder EXCEPT !.pc = "poll", !.attempt = 0, !.polls = 0,
                                 !.status = "none"]
           ELSE [recorder EXCEPT !.pc = "transcribed", !.polls = 0,
                                 !.status = "none",
                                 !.transcription = NoTranscription]
    /\ BatchFrame

\* transcribe_audio_whisper: one pass of the polling loop.  "raise" is any
\* exception of the pass (the request, raise_for_status, the JSON, the
\* formatting of the utterances): the except of the function returns None
PollStatus ==
    /\ BatchAt("poll")
    /\ poll_again(recorder.attempt)
    /\ \E status \in {"completed", "error", "processing", "raise"} :
         IF status = "completed"
         THEN \E t \in Transcriptions :
                recorder' = [recorder EXCEPT !.pc = "transcribed",
                                             !.polls = @ + 1,
                                             !.status = status,
                                             !.transcription = t]
         ELSE IF status = "processing"
         THEN recorder' = [recorder EXCEPT !.attempt = @ + 1,
                                           !.polls = @ + 1,
                                           !.status = status]
         ELSE recorder' = [recorder EXCEPT !.pc = "transcribed",
                                           !.polls = @ + 1,
                                           !.status = status,
                                           !.transcription = NoTranscription]
    /\ BatchFrame

\* transcribe_audio_whisper: the loop ran out: "Transcription timeout"
PollTimeout ==
    /\ BatchAt("poll")
    /\ ~poll_again(recorder.attempt)
    /\ recorder' = [recorder EXCEPT !.pc = "transcribed",
                                    !.transcription = NoTranscription]
    /\ BatchFrame

\* process_call after the transcription: format, save_transcription, True
SaveTranscription ==
    /\ BatchAt("transcribed")
    /\ IF Falsy(recorder.transcription)
       THEN recorder' = [recorder EXCEPT !.pc = "returned",
                                         !.success = FALSE]
       ELSE \E saved \in BOOLEAN :
              recorder' =
                [recorder EXCEPT
                   !.pc = "returned",
                   !.success = TRUE,
                   !.trail = IF saved THEN Append(Append(@, "transcribed"),
                                                  "saved")
                             ELSE Append(@, "transcribed"),
                   !.transcriptions =
                       IF saved
                       THEN @ \cup {[Sid |-> recorder.call.Sid,
                                     transcription |->
                                       Formatted(recorder.transcription)]}
                       ELSE @]
    /\ BatchFrame

\* run that records the call whatever process_call returned
RunAfterCallAlwaysAdds ==
    /\ BatchAt("returned")
    /\ recorder' =
         EndOfCycle([recorder EXCEPT
                       !.processed_calls = @ \cup {recorder.call.Sid}])
    /\ BatchFrame

\* run after process_call returned
RunAfterCall ==
    /\ BatchAt("returned")
    /\ recorder' =
         EndOfCycle(IF recorder.success
                    THEN [recorder EXCEPT
                            !.processed_calls = @ \cup {recorder.call.Sid}]
                    ELSE recorder)
    /\ BatchFrame

NextBatch ==
    \/ RunCycle
    \/ ProcessCallCheck
    \/ DownloadRecording
    \/ TranscribeSubmit
    \/ PollStatus
    \/ PollTimeout
    \/ SaveTranscription
    \/ RunAfterCall

SpecBatch == InitBatch /\ [][NextBatch]_allvars

\* every request of the polling loop returns or raises
SpecBatchFair ==
    /\ SpecBatch
    /\ WF_allvars(PollStatus)
    /\ WF_allvars(PollTimeout)

(***************************************************************************)
(* C28: the already-processed set of run starts empty, only grows, gets a  *)
(* call id only when process_call returned success for that call, a call   *)
(* whose id is in the set is not passed to process_call again, and a call  *)
(* whose processing failed is not put in the set.                          *)
(***************************************************************************)
C28_ProcessedSetDiscipline ==
    [][ /\ recorder.entered = 0 => recorder.processed_calls = {}
        /\ recorder.processed_calls \subseteq recorder'.processed_calls
        /\ \A sid \in recorder'.processed_calls \ recorder.processed_calls :
             /\ recorder.pc = "returned"
             /\ recorder.success
             /\ sid = recorder.call.Sid
        /\ recorder'.entered = recorder.entered + 1
           => /\ recorder'.pc = "process_call"
              /\ recorder'.call.Sid \notin recorder.processed_calls
        /\ (recorder.pc = "returned" /\ ~recorder.success)
           => recorder.call.Sid \notin recorder'.processed_calls ]_allvars

\* second cycle: CA1 is in the set, CA2 was passed to process_call and
\* failed
C28_Witness ==
    /\ recorder.used
    /\ recorder.cycle = 1
    /\ recorder.pc = "returned"
    /\ ~recorder.success
    /\ recorder.call.Sid = "CA2"
    /\ recorder.entered = 2
    /\ recorder.processed_calls = {"CA1"}

(***************************************************************************)
(* C29: the status polling of transcribe_audio_whisper terminates: at most *)
(* 60 status requests; the transcript is returned on status completed,     *)
(* None on status error or an exception, None after the 60th request       *)
(* without completion.                                                     *)
(***************************************************************************)
C29_PollingTerminates ==
    /\ [](recorder.polls <= max_attempts)
    /\ [][ (recorder.pc = "poll" /\ recorder'.pc # "poll")
           => /\ recorder'.pc = "transcribed"
              /\ recorder'.status = "completed" => recorder'.transcription.has
              /\ recorder'.status \in {"error", "raise"}
                 => recorder'.transcription = NoTranscription
              /\ recorder'.status = "processing"
                 => /\ recorder'.polls = max_attempts
                    /\ recorder'.transcription = NoTranscription
              /\ recorder'.status # "none" ]_allvars
    /\ (recorder.pc = "poll") ~> (recorder.pc = "transcribed")

\* the loop ran out after 60 requests that all answered "processing"
C29_Witness ==
    /\ recorder.used
    /\ recorder.pc = "transcribed"
    /\ recorder.polls = 60
    /\ recorder.attempt = 60
    /\ recorder.status = "processing"
    /\ recorder.transcription = NoTranscription

(***************************************************************************)
(* C30: process_call saves a transcription only after the call was found   *)
(* completed with a recording URL, the download succeeded and the          *)
(* transcription returned a non-empty text, in that order; when one of     *)
(* these fails it returns False and saves nothing.                         *)
(***************************************************************************)
C30_SaveOnlyAfterAllSteps ==
    [][ /\ recorder'.transcriptions # recorder.transcriptions
           => /\ recorder'.trail
                   = <<"eligible", "downloaded", "transcribed", "saved">>
              /\ recorder.call.Status = "completed"
              /\ recorder.call.RecordingUrl
              /\ recorder.transcription.has
              /\ recorder.transcription.text # <<>>
              /\ recorder'.success
              /\ \E a \in recorder'.transcriptions :
                   /\ a.Sid = recorder.call.Sid
                   /\ a.transcription.text = recorder.transcription.text
                   /\ recorder'.transcriptions
                        = recorder.transcriptions \cup {a}
        /\ (recorder.pc # "returned" /\ recorder'.pc = "returned")
           => /\ recorder'.success
                 <=> /\ Len(recorder'.trail) >= 3
                     /\ SubSeq(recorder'.trail, 1, 3)
                          = <<"eligible", "downloaded", "transcribed">>
              /\ ~recorder'.success
                 => /\ recorder'.transcriptions = recorder.transcriptions
                    /\ \A k \in 1..Len(recorder'.trail) :
                         recorder'.trail[k] # "saved" ]_allvars

\* a call that went through every step and was saved
C30_Witness ==
    /\ recorder.used
    /\ recorder.pc = "returned"
    /\ recorder.success
    /\ recorder.trail = <<"eligible", "downloaded", "transcribed", "saved">>
    /\ \E a \in recorder.transcriptions : a.Sid = recorder.call.Sid

====
